---------------------------- MODULE Spec2Model ----------------------------
(***************************************************************************)
(* Model of the T-code search pipeline: the route handler of               *)
(* /api/v1/search/ai, executeAISearch with its stages, the two-tier cache  *)
(* and hybridSearch.                                                       *)
(*                                                                         *)
(* Conventions.                                                            *)
(*  - Text is a sequence of one-character strings, so that toUpperCase,    *)
(*    toLowerCase, trim, split and includes are computed, not assumed.     *)
(*  - Scores and confidences are fixed-point integers, 1000 = 1.0;         *)
(*    products are rounded down (Mul).                                     *)
(*  - Time is counted in hours: a request takes seconds, the TTLs are      *)
(*    hours, so the clock moves between requests.                          *)
(***************************************************************************)
EXTENDS Integers, Sequences, FiniteSets, TLC

(***************************************************************************)
(* Text                                                                    *)
(***************************************************************************)
LowerChars == <<"a","b","c","d","e","f","g","h","i","j","k","l","m",
                "n","o","p","q","r","s","t","u","v","w","x","y","z">>

UpperChars == <<"A","B","C","D","E","F","G","H","I","J","K","L","M",
                "N","O","P","Q","R","S","T","U","V","W","X","Y","Z">>

UpperChar(c) ==
  IF \E i \in 1..26 : LowerChars[i] = c
  THEN UpperChars[CHOOSE i \in 1..26 : LowerChars[i] = c]
  ELSE c

LowerChar(c) ==
  IF \E i \in 1..26 : UpperChars[i] = c
  THEN LowerChars[CHOOSE i \in 1..26 : UpperChars[i] = c]
  ELSE c

\* String.prototype.toUpperCase / toLowerCase
ToUpper(s) == [i \in 1..Len(s) |-> UpperChar(s[i])]

ToLower(s) == [i \in 1..Len(s) |-> LowerChar(s[i])]

IsSpace(c) == c = " "

\* String.prototype.trim
Trim(s) ==
  IF \A i \in 1..Len(s) : IsSpace(s[i]) THEN <<>>
  ELSE LET a == CHOOSE i \in 1..Len(s) :
                  /\ ~IsSpace(s[i])
                  /\ \A j \in 1..(i-1) : IsSpace(s[j])
           b == CHOOSE i \in 1..Len(s) :
                  /\ ~IsSpace(s[i])
                  /\ \A j \in (i+1)..Len(s) : IsSpace(s[j])
       IN SubSeq(s, a, b)

\* s.replace(/\s+/g, ' ')
RECURSIVE CollapseSpaces(_)
CollapseSpaces(s) ==
  IF Len(s) = 0 THEN <<>>
  ELSE IF IsSpace(s[1])
       THEN IF Len(s) > 1 /\ IsSpace(s[2])
            THEN CollapseSpaces(Tail(s))
            ELSE <<" ">> \o CollapseSpaces(Tail(s))
       ELSE <<s[1]>> \o CollapseSpaces(Tail(s))

\* s.split(/\s+/): the pieces between runs of white space; a leading or a
\* trailing run yields an empty piece, as in JavaScript.
RECURSIVE SplitAcc(_, _)
SplitAcc(s, cur) ==
  IF Len(s) = 0 THEN <<cur>>
  ELSE IF IsSpace(s[1])
       THEN IF Len(s) > 1 /\ IsSpace(s[2])
            THEN SplitAcc(Tail(s), cur)
            ELSE <<cur>> \o SplitAcc(Tail(s), <<>>)
       ELSE SplitAcc(Tail(s), Append(cur, s[1]))

SplitSpaces(s) == SplitAcc(s, <<>>)

\* String.prototype.includes
Includes(s, sub) ==
  \E i \in 1..(Len(s) - Len(sub) + 1) : SubSeq(s, i, i + Len(sub) - 1) = sub

\* String.prototype.startsWith
StartsWith(s, pre) == Len(pre) <= Len(s) /\ SubSeq(s, 1, Len(pre)) = pre

Range(s) == {s[i] : i \in 1..Len(s)}

Min(a, b) == IF a <= b THEN a ELSE b

Max(a, b) == IF a >= b THEN a ELSE b


\* Fixed-point product of x and the ratio num/den, rounded down.
Mul(x, num, den) == (x * num) \div den

\* Array.prototype.sort((a, b) => b.confidence - a.confidence): stable,
\* descending by the field that Key reads.
RECURSIVE InsertDesc(_, _, _)
InsertDesc(order, i, keys) ==
  IF Len(order) = 0 THEN <<i>>
  ELSE IF keys[order[1]] >= keys[i]
       THEN <<order[1]>> \o InsertDesc(Tail(order), i, keys)
       ELSE <<i>> \o order

RECURSIVE SortOrder(_, _, _)
SortOrder(order, i, keys) ==
  IF i > Len(keys) THEN order
  ELSE SortOrder(InsertDesc(order, i, keys), i + 1, keys)

\* rs sorted by keys (keys[i] is the key of rs[i]), largest first, stable.
SortDescBy(rs, keys) ==
  LET order == SortOrder(<<>>, 1, keys)
  IN [k \in 1..Len(rs) |-> rs[order[k]]]

\* No sort at all.
KeepOrder(rs) == rs

SortByConfidence(rs) == SortDescBy(rs, [i \in 1..Len(rs) |-> rs[i].confidence])

(***************************************************************************)
(* Bounds of the model                                                     *)
(***************************************************************************)
\* Requests the route serves in one behaviour.
MaxRequests == 1

\* Requests in one behaviour of the repeated-request specification.
MaxRepeats == 2

\* Largest value of the limit parameter that requests use.
MaxLimit == 2

\* Capacity of the in-process LRU tier (the code constructs it with 2000).
MemoryMaxSize == 4

\* Last hour of the clock.
MaxTime == 2


(***************************************************************************)
(* Program constants                                                       *)
(***************************************************************************)
\* TTLs in hours (the code gives them in seconds).
CACHE_TTL == 24

FALLBACK_CACHE_TTL == 12

EXPANSION_CACHE_TTL == 168

EMBEDDING_CACHE_TTL == 168

SEMANTIC_CACHE_TTL == 4

FEEDBACK_CACHE_TTL == 1

MOLGA_CACHE_TTL == 24

\* Confidences, 1000 = 1.0.
WEB_FALLBACK_THRESHOLD == 600

WEB_VALIDATED_CONFIDENCE == 750

MAX_AI_CONFIDENCE == 600

MOLGA_CONFIDENCE_CAP == 990

FEEDBACK_CONFIDENCE_CAP == 990

TERM_BOOST_STEP == 50

TERM_BOOST_CAP == 150

\* Rows the catalog validation query of the web fallback takes.
WEB_VALIDATE_TAKE == 10

(***************************************************************************)
(* The catalog, the locale table and the queries                           *)
(***************************************************************************)
Txt_ME21N == <<"M","E","2","1","N">>

Txt_ME22N == <<"M","E","2","2","N">>

Txt_ME21 == <<"M","E","2","1">>

Txt_PM10 == <<"P","M","1","0">>

Txt_PM01 == <<"P","M","0","1">>

Txt_ZZ9 == <<"Z","Z","9">>

Txt_createOrder == <<"c","r","e","a","t","e"," ","o","r","d","e","r">>

Txt_changeOrder == <<"c","h","a","n","g","e"," ","o","r","d","e","r">>

Txt_usaPay == <<"u","s","a"," ","p","a","y">>

Txt_germanPay == <<"g","e","r","m","a","n"," ","p","a","y">>

\* transaction_codes rows: identifiers are unique, compared without case.
Catalog ==
  { [tcode |-> Txt_ME21N, description |-> Txt_createOrder, isDeprecated |-> FALSE],
    [tcode |-> Txt_ME22N, description |-> Txt_changeOrder, isDeprecated |-> FALSE],
    [tcode |-> Txt_ME21,  description |-> Txt_createOrder, isDeprecated |-> TRUE],
    [tcode |-> Txt_PM10,  description |-> Txt_usaPay,      isDeprecated |-> FALSE],
    [tcode |-> Txt_PM01,  description |-> Txt_germanPay,   isDeprecated |-> FALSE] }

CatalogEntry(t) == CHOOSE e \in Catalog : e.tcode = t

\* molga rows.
MolgaTable ==
  << [molga |-> 1,  isoCode |-> <<"D","E">>, country |-> <<"G","e","r","m","a","n","y">>,
      aliases |-> << <<"g","e","r","m","a","n">> >>],
     [molga |-> 10, isoCode |-> <<"U","S">>, country |-> <<"U","n","i","t","e","d"," ","S","t","a","t","e","s">>,
      aliases |-> << <<"u","s","a">> >>] >>

\* Query texts the route is called with (each has at least 3 characters).
Q_createOrder == <<"c","r","e","a","t","e"," ","o","r","d","e","r">>

Q_CreateOrderSpaced == <<"C","r","e","a","t","e"," "," ","o","r","d","e","r"," ">>

Q_usaPay == <<"u","s","a"," ","p","a","y">>

Queries == {Q_createOrder, Q_CreateOrderSpaced, Q_usaPay}

Limits == 1..MaxLimit


(***************************************************************************)
(* The cache layer                                                         *)
(***************************************************************************)
\* Decimal digits of a small number, as `${limit}` prints it.
DigitChars == <<"0","1","2","3","4","5","6","7","8","9">>

RECURSIVE NumText(_)
NumText(n) ==
  IF n < 10 THEN <<DigitChars[n + 1]>>
  ELSE NumText(n \div 10) \o <<DigitChars[(n % 10) + 1]>>

\* generateCacheKey: the prefix and the query lower-cased, trimmed, with
\* runs of white space collapsed.  Prefixes hold no colon, so the pair
\* stands for the string `${prefix}:${normalized}`.
generateCacheKey(prefix, queryText) ==
  [prefix |-> prefix, text |-> CollapseSpaces(Trim(ToLower(queryText)))]

\* An absent value (null, undefined).
Null == [null |-> TRUE]

\* LRUCache: the Map as the sequence of its entries in insertion order.
LruIndex(mem, key) ==
  IF \E i \in 1..Len(mem) : mem[i].key = key
  THEN CHOOSE i \in 1..Len(mem) : mem[i].key = key
  ELSE 0

LruRemoveAt(mem, i) == SubSeq(mem, 1, i - 1) \o SubSeq(mem, i + 1, Len(mem))

\* LRUCache.get: [found, value, mem]; an expired entry is deleted, a live
\* one moves to the end.
LruGetAt(mem, i, t) ==
  IF i = 0 THEN [found |-> FALSE, value |-> Null, mem |-> mem]
  ELSE IF t > mem[i].expiresAt
       THEN [found |-> FALSE, value |-> Null, mem |-> LruRemoveAt(mem, i)]
       ELSE [found |-> TRUE, value |-> mem[i].value,
             mem |-> Append(LruRemoveAt(mem, i), mem[i])]

LruGet(mem, key, t) == LruGetAt(mem, LruIndex(mem, key), t)

\* LRUCache.set: at capacity the first key is deleted, whichever key is
\* being set; Map.set keeps the position of a key that is still present.
LruPut(mem, i, entry) ==
  IF i = 0 THEN Append(mem, entry) ELSE [mem EXCEPT ![i] = entry]

LruSetAfterEvict(mem, key, value, expiresAt) ==
  LruPut(mem, LruIndex(mem, key), [key |-> key, value |-> value, expiresAt |-> expiresAt])

LruSet(mem, key, value, ttl, t) ==
  LruSetAfterEvict(IF Len(mem) >= MemoryMaxSize THEN Tail(mem) ELSE mem,
                   key, value, t + ttl)

LruDeleteAt(mem, i) == IF i = 0 THEN mem ELSE LruRemoveAt(mem, i)

LruDelete(mem, key) == LruDeleteAt(mem, LruIndex(mem, key))

\* The shared store: a function from the keys it holds to [value,
\* expiresAt]; a key set with EX ttl is gone once ttl has passed.
EmptyStore == [k \in {} |-> Null]

RedisHas(store, key, t) == key \in DOMAIN store /\ t < store[key].expiresAt

RedisSet(store, key, value, ttl, t) ==
  [k \in DOMAIN store \cup {key} |->
     IF k = key THEN [value |-> value, expiresAt |-> t + ttl] ELSE store[k]]

RedisDel(store, key) == [k \in DOMAIN store \ {key} |-> store[k]]

\* A cache state is [mem, store]; mode is the shared store's state:
\* "none" (not configured: getRedis returns null), "up", or "down" (every
\* call to it throws).
\* getCached: [found, value, cache].  With a client the answer of the shared
\* store is returned as it is, also when it has no entry; the in-process
\* tier is read when there is no client or the call threw.
FromMemory(cache, g) ==
  [found |-> g.found, value |-> g.value, cache |-> [cache EXCEPT !.mem = g.mem]]

\* A read that gives up when the shared store's call throws.
getCachedByKeyNoFallback(cache, mode, key, t) ==
  IF mode = "up"
  THEN IF RedisHas(cache.store, key, t)
       THEN [found |-> TRUE, value |-> cache.store[key].value, cache |-> cache]
       ELSE [found |-> FALSE, value |-> Null, cache |-> cache]
  ELSE IF mode = "down"
  THEN [found |-> FALSE, value |-> Null, cache |-> cache]
  ELSE FromMemory(cache, LruGet(cache.mem, key, t))

getCachedByKey(cache, mode, key, t) ==
  IF mode = "up"
  THEN IF RedisHas(cache.store, key, t)
       THEN [found |-> TRUE, value |-> cache.store[key].value, cache |-> cache]
       ELSE [found |-> FALSE, value |-> Null, cache |-> cache]
  ELSE FromMemory(cache, LruGet(cache.mem, key, t))

getCached(cache, mode, prefix, queryText, t) ==
  getCachedByKey(cache, mode, generateCacheKey(prefix, queryText), t)

\* setCached: always the in-process tier, then the shared store if there
\* is a client; its error is logged.
setCachedByKey(cache, mode, key, value, ttl, t) ==
  [mem |-> LruSet(cache.mem, key, value, ttl, t),
   store |-> IF mode = "up" THEN RedisSet(cache.store, key, value, ttl, t)
             ELSE cache.store]

setCached(cache, mode, prefix, queryText, value, ttl, t) ==
  setCachedByKey(cache, mode, generateCacheKey(prefix, queryText), value, ttl, t)

\* deleteCached
deleteCachedByKey(cache, mode, key) ==
  [mem |-> LruDelete(cache.mem, key),
   store |-> IF mode = "up" THEN RedisDel(cache.store, key) ELSE cache.store]

deleteCached(cache, mode, prefix, queryText) ==
  deleteCachedByKey(cache, mode, generateCacheKey(prefix, queryText))


(***************************************************************************)
(* Pure parts of the pipeline                                              *)
(*                                                                         *)
(* A candidate (SearchResult) is [tcode, description, relevanceScore,      *)
(* matchType]; a result (AISearchResult) is [tcode, description,           *)
(* explanation, confidence, source, aiGenerated].  The module and program  *)
(* fields are carried through unchanged by the code and are left out.      *)
(* Explanations are opaque texts, named by a tag.                          *)
(***************************************************************************)
Tcodes(rs) == [i \in 1..Len(rs) |-> rs[i].tcode]

HasTcode(rs, t) == \E i \in 1..Len(rs) : rs[i].tcode = t

\* Insertion-ordered Map keyed by tcode: set() of a new key appends, of a
\* present key replaces in place.
MapSet(rs, r) ==
  IF HasTcode(rs, r.tcode)
  THEN [i \in 1..Len(rs) |-> IF rs[i].tcode = r.tcode THEN r ELSE rs[i]]
  ELSE Append(rs, r)

RECURSIVE MapSetAll(_, _)
MapSetAll(rs, new) ==
  IF Len(new) = 0 THEN rs ELSE MapSetAll(MapSet(rs, new[1]), Tail(new))

MapSetIfAbsent(rs, r) == IF HasTcode(rs, r.tcode) THEN rs ELSE Append(rs, r)

RECURSIVE MapSetAllIfAbsent(_, _)
MapSetAllIfAbsent(rs, new) ==
  IF Len(new) = 0 THEN rs
  ELSE MapSetAllIfAbsent(MapSetIfAbsent(rs, new[1]), Tail(new))

Take(rs, n) == SubSeq(rs, 1, Min(n, Len(rs)))

\* executeAISearch, the fusion: expanded-query candidates first, then the
\* direct ones not yet present, cut to 2 x limit.
FuseCandidates(expandedCands, directCands, lim) ==
  Take(MapSetAllIfAbsent(MapSetAll(<<>>, expandedCands), directCands), lim * 2)

createDefaultResults(cands) ==
  [i \in 1..Len(cands) |->
     [tcode |-> cands[i].tcode, description |-> cands[i].description,
      explanation |-> "description-similarity",
      confidence |-> cands[i].relevanceScore,
      source |-> "none", aiGenerated |-> FALSE]]

\* parsed.results.find(r => r.tcode.toUpperCase() === candidate.tcode.toUpperCase())
FindVerdict(verdicts, t) ==
  LET hits == {i \in 1..Len(verdicts) : ToUpper(verdicts[i].tcode) = ToUpper(t)}
  IN IF hits = {} THEN 0 ELSE CHOOSE i \in hits : \A j \in hits : i <= j

\* A mapping that keeps only the candidates the reply has a verdict for.
ApplyRerankReplyMatchedOnly(cands, verdicts) ==
  LET matched == SelectSeq(cands, LAMBDA c : FindVerdict(verdicts, c.tcode) # 0)
  IN [i \in 1..Len(matched) |->
        [tcode |-> matched[i].tcode, description |-> matched[i].description,
         explanation |-> "model",
         confidence |-> verdicts[FindVerdict(verdicts, matched[i].tcode)].confidence,
         source |-> "none", aiGenerated |-> FALSE]]

\* executeAISearch, the mapping of the parsed model reply onto the
\* candidates.  A verdict is [tcode, explanation, confidence]; its
\* explanation is "" when the model gave none.
ApplyRerankReply(cands, verdicts) ==
  [i \in 1..Len(cands) |->
     LET v == FindVerdict(verdicts, cands[i].tcode)
     IN [tcode |-> cands[i].tcode, description |-> cands[i].description,
         explanation |-> IF v # 0 /\ verdicts[v].explanation # ""
                         THEN verdicts[v].explanation ELSE "search-criteria",
         confidence |-> IF v # 0 THEN verdicts[v].confidence
                        ELSE cands[i].relevanceScore,
         source |-> "none", aiGenerated |-> FALSE]]

\* query.toLowerCase().split(/\s+/).filter(t => t.length > 2)
QueryTerms(queryText) ==
  SelectSeq(SplitSpaces(ToLower(queryText)), LAMBDA w : Len(w) > 2)

TermBoostOf(r, terms) ==
  LET matching == {i \in 1..Len(terms) :
                     \/ Includes(ToLower(r.description), terms[i])
                     \/ Includes(ToLower(r.tcode), terms[i])}
  IN Min(Cardinality(matching) * TERM_BOOST_STEP, TERM_BOOST_CAP)

\* executeAISearch, the term-matching boost.
ApplyTermBoost(rs, queryText) ==
  LET terms == QueryTerms(queryText)
  IN [i \in 1..Len(rs) |->
        [rs[i] EXCEPT !.confidence = Min(1000, rs[i].confidence + TermBoostOf(rs[i], terms))]]

\* applyJudgments.  A judgment is [tcode, correctedExplanation,
\* correctedConfidence]; "" is a null explanation, {} a null confidence
\* and {c} the confidence c.  The Map built from
\* the judgments keeps the last judgment of a tcode.
FindJudgment(judgments, t) ==
  LET hits == {i \in 1..Len(judgments) : ToUpper(judgments[i].tcode) = ToUpper(t)}
  IN IF hits = {} THEN 0 ELSE CHOOSE i \in hits : \A j \in hits : i >= j

applyJudgments(rs, judgments) ==
  [i \in 1..Len(rs) |->
     LET j == FindJudgment(judgments, rs[i].tcode)
     IN IF j = 0 THEN rs[i]
        ELSE [rs[i] EXCEPT
                !.explanation = IF judgments[j].correctedExplanation # ""
                                THEN judgments[j].correctedExplanation ELSE @,
                !.confidence = IF judgments[j].correctedConfidence # {}
                               THEN CHOOSE c \in judgments[j].correctedConfidence : TRUE
                               ELSE @]]


(***************************************************************************)
(* Web-validation fallback (web-search.ts)                                 *)
(***************************************************************************)
IsUpperLetter(c) == \E i \in 1..26 : UpperChars[i] = c

IsLetter(c) == IsUpperLetter(UpperChar(c))

IsDigit(c) == \E i \in 1..10 : DigitChars[i] = c

\* The stop words of FILTER_WORDS that the modelled web texts use.
FILTER_WORDS == { <<"S","A","P">>, <<"T","H","E">>, <<"C","R","E","A","T","E">> }

\* /\b([A-Z][A-Z0-9_\/]{1,19})\b/g on one word of the text: the word as a
\* whole matches or nothing of it does.
MatchesTcodePattern(w) ==
  /\ Len(w) >= 2 /\ Len(w) <= 20
  /\ IsUpperLetter(w[1])
  /\ \A i \in 2..Len(w) : IsUpperLetter(w[i]) \/ IsDigit(w[i]) \/ w[i] = "_"

RECURSIVE DedupTexts(_, _)
DedupTexts(seen, ws) ==
  IF Len(ws) = 0 THEN seen
  ELSE DedupTexts(IF ws[1] \in Range(seen) THEN seen ELSE Append(seen, ws[1]), Tail(ws))

\* extractTCodes: the matching words, upper-cased, without the stop words,
\* each once, in order of first occurrence.
extractTCodes(content) ==
  DedupTexts(<<>>,
    SelectSeq([i \in 1..Len(SplitSpaces(content)) |-> ToUpper(SplitSpaces(content)[i])],
              LAMBDA w : /\ MatchesTcodePattern(w)
                         /\ Len(w) >= 2
                         /\ w \notin FILTER_WORDS))

\* The rows of a findMany over the catalog, in the table's order (the
\* catalog listed by identifier).
RECURSIVE SetToSeq(_)
SetToSeq(S) ==
  IF S = {} THEN <<>>
  ELSE LET x == CHOOSE x \in S : TRUE IN <<x>> \o SetToSeq(S \ {x})

CatalogRows == SetToSeq(Catalog)

\* validateAndFetchTCodes, given that the query answered.
validateAndFetchTCodes(tcodes) ==
  IF Len(tcodes) = 0 THEN <<>>
  ELSE LET rows == Take(SelectSeq(CatalogRows,
                          LAMBDA e : e.tcode \in Range(tcodes) /\ ~e.isDeprecated),
                        WEB_VALIDATE_TAKE)
       IN [i \in 1..Len(rows) |->
             [tcode |-> rows[i].tcode, description |-> rows[i].description,
              explanation |-> "found-via-web",
              confidence |-> WEB_VALIDATED_CONFIDENCE,
              source |-> "web", aiGenerated |-> FALSE]]

\* enhanceWithWebSearch, the merge: web results first, existing results
\* that are not among them after, sorted.
MergeWebResults(webResults, existingResults) ==
  SortByConfidence(MapSetAllIfAbsent(MapSetAll(<<>>, webResults), existingResults))

(***************************************************************************)
(* Locale booster (molga-lookup.ts)                                        *)
(***************************************************************************)
DigitValue(c) == (CHOOSE i \in 1..10 : DigitChars[i] = c) - 1

\* Whether "M", d digits and what the pattern asks around them stand at
\* position i of t.  before: "any", "underscore" or "start"; after: "any",
\* "underscore", "end" or "letterOrEnd".
MolgaAt(t, i, d, before, after) ==
  /\ i >= 1 /\ i + d <= Len(t)
  /\ UpperChar(t[i]) = "M"
  /\ \A k \in (i + 1)..(i + d) : IsDigit(t[k])
  /\ CASE before = "underscore" -> i > 1 /\ t[i - 1] = "_"
       [] before = "start" -> i = 1
       [] OTHER -> TRUE
  /\ CASE after = "underscore" -> i + d < Len(t) /\ t[i + d + 1] = "_"
       [] after = "end" -> i + d = Len(t)
       [] after = "letterOrEnd" ->
            \/ i + d = Len(t)
            \/ IsLetter(t[i + d + 1]) \/ t[i + d + 1] = "_"
       [] OTHER -> TRUE

\* The number the first match of one pattern captures: {} or {n}.  The
\* match is the leftmost one and \d{1,2} takes two digits when it can.
MolgaByPattern(t, before, after) ==
  LET starts == {i \in 1..Len(t) : \E d \in 1..2 : MolgaAt(t, i, d, before, after)}
  IN IF starts = {} THEN {}
     ELSE LET i == CHOOSE i \in starts : \A j \in starts : i <= j
              d == IF MolgaAt(t, i, 2, before, after) THEN 2 ELSE 1
          IN { IF d = 2 THEN DigitValue(t[i + 1]) * 10 + DigitValue(t[i + 2])
               ELSE DigitValue(t[i + 1]) }

\* extractMolgaFromTcode: {} for null.
extractMolgaFromTcode(t) ==
  IF MolgaByPattern(t, "underscore", "underscore") # {}
  THEN MolgaByPattern(t, "underscore", "underscore")
  ELSE IF MolgaByPattern(t, "underscore", "end") # {}
  THEN MolgaByPattern(t, "underscore", "end")
  ELSE IF MolgaByPattern(t, "start", "underscore") # {}
  THEN MolgaByPattern(t, "start", "underscore")
  ELSE MolgaByPattern(t, "any", "letterOrEnd")

\* detectCountryInQuery, given the table: the molga numbers of the entries
\* the query names, in table order.
EntryMatchesQuery(entry, queryText) ==
  LET queryLower == ToLower(queryText)
  IN \/ ToLower(entry.isoCode) \in Range(SplitSpaces(queryLower))
     \/ Includes(queryLower, ToLower(entry.country))
     \/ \E a \in 1..Len(entry.aliases) : Includes(queryLower, ToLower(entry.aliases[a]))

detectCountryInQuery(molgaData, queryText) ==
  LET hits == SelectSeq(molgaData, LAMBDA e : EntryMatchesQuery(e, queryText))
  IN [i \in 1..Len(hits) |-> hits[i].molga]

\* A booster that raises every candidate that carries a locale pattern,
\* whichever locale the query names.
applyMolgaBoostAnyLocale(rs, molgaData, queryText) ==
  LET countryMatches == detectCountryInQuery(molgaData, queryText)
  IN IF Len(rs) = 0 \/ Len(countryMatches) = 0 THEN rs
     ELSE [i \in 1..Len(rs) |->
             IF extractMolgaFromTcode(rs[i].tcode) # {}
             THEN [rs[i] EXCEPT !.confidence =
                     Min(MOLGA_CONFIDENCE_CAP, Mul(rs[i].confidence, 3, 2))]
             ELSE rs[i]]

\* applyMolgaBoost, given the table.
applyMolgaBoost(rs, molgaData, queryText) ==
  LET countryMatches == detectCountryInQuery(molgaData, queryText)
  IN IF Len(rs) = 0 \/ Len(countryMatches) = 0 THEN rs
     ELSE [i \in 1..Len(rs) |->
             LET tcodeMolga == extractMolgaFromTcode(rs[i].tcode)
             IN IF tcodeMolga = {countryMatches[1]}
                THEN [rs[i] EXCEPT !.confidence =
                        Min(MOLGA_CONFIDENCE_CAP, Mul(rs[i].confidence, 3, 2))]
                ELSE IF tcodeMolga # {}
                THEN [rs[i] EXCEPT !.confidence = Mul(rs[i].confidence, 1, 2)]
                ELSE rs[i]]

(***************************************************************************)
(* Feedback booster (feedback-ranking.ts)                                  *)
(***************************************************************************)
\* floor(1000 * log10(x)) for x in 1..9, and for x/10 with x in 10..99.
Log10Units == <<0, 301, 477, 602, 698, 778, 845, 903, 954>>

Log10Mantissa ==
  <<
     0, 41, 79, 113, 146, 176, 204, 230, 255, 278,
     301, 322, 342, 361, 380, 397, 414, 431, 447, 462,
     477, 491, 505, 518, 531, 544, 556, 568, 579, 591,
     602, 612, 623, 633, 643, 653, 662, 672, 681, 690,
     698, 707, 716, 724, 732, 740, 748, 755, 763, 770,
     778, 785, 792, 799, 806, 812, 819, 826, 832, 838,
     845, 851, 857, 863, 869, 875, 880, 886, 892, 897,
     903, 908, 913, 919, 924, 929, 934, 939, 944, 949,
     954, 959, 963, 968, 973, 977, 982, 986, 991, 995 >>

RECURSIVE Log10Milli(_)
Log10Milli(x) ==
  IF x < 10 THEN Log10Units[x]
  ELSE IF x < 100 THEN 1000 + Log10Mantissa[x - 9]
  ELSE 1000 + Log10Milli(x \div 10)

\* A boost factor without the clamp to [0.7, 1.5].
calculateBoostFactorUnclamped(upvotes, downvotes) ==
  LET netScore == upvotes - downvotes
      magnitude == IF netScore < 0 THEN 0 - netScore ELSE netScore
      scaled == Mul(Log10Milli(1 + magnitude), 150, 1000)
  IN IF netScore = 0 THEN 1000
     ELSE IF netScore > 0 THEN 1000 + scaled ELSE 1000 - scaled

\* A boost factor that forgets the sign of the net score.
calculateBoostFactorUnsigned(upvotes, downvotes) ==
  LET netScore == upvotes - downvotes
      magnitude == IF netScore < 0 THEN 0 - netScore ELSE netScore
      scaled == Mul(Log10Milli(1 + magnitude), 150, 1000)
  IN IF netScore = 0 THEN 1000
     ELSE Max(700, Min(1500, 1000 + scaled))

\* calculateBoostFactor, 1000 = 1.0.
calculateBoostFactor(upvotes, downvotes) ==
  LET netScore == upvotes - downvotes
      magnitude == IF netScore < 0 THEN 0 - netScore ELSE netScore
      scaled == Mul(Log10Milli(1 + magnitude), 150, 1000)
  IN IF netScore = 0 THEN 1000
     ELSE Max(700, Min(1500, IF netScore > 0 THEN 1000 + scaled ELSE 1000 - scaled))


\* The feedback table aggregated per identifier: votes[t] = [net, total],
\* the sum and the number of the votes (+1 or -1) cast for t.
ScoreFromVotes(t, v) ==
  LET upvotes == (v.total + v.net) \div 2
      downvotes == v.total - upvotes
  IN [tcode |-> t, upvotes |-> upvotes, downvotes |-> downvotes,
      netScore |-> v.net, boostFactor |-> calculateBoostFactor(upvotes, downvotes)]

ZeroScore(t) ==
  [tcode |-> t, upvotes |-> 0, downvotes |-> 0, netScore |-> 0, boostFactor |-> 1000]

\* getFeedbackScores, the cache reads: [cache, cached, uncached].
ReadStep(acc, g, tcode) ==
  [cache |-> g.cache,
   cached |-> IF g.found THEN MapSet(acc.cached, [g.value EXCEPT !.tcode = tcode])
              ELSE acc.cached,
   uncached |-> IF g.found THEN acc.uncached ELSE Append(acc.uncached, tcode)]

RECURSIVE ReadCachedScores(_, _, _, _, _)
ReadCachedScores(acc, mode, tcodes, i, t) ==
  IF i > Len(tcodes) THEN acc
  ELSE ReadCachedScores(
         ReadStep(acc, getCached(acc.cache, mode, "feedback-scores", tcodes[i], t),
                  tcodes[i]),
         mode, tcodes, i + 1, t)

RECURSIVE WriteScores(_, _, _, _)
WriteScores(cache, mode, scores, t) ==
  IF Len(scores) = 0 THEN cache
  ELSE WriteScores(
         setCached(cache, mode, "feedback-scores", scores[1].tcode, scores[1],
                   FEEDBACK_CACHE_TTL, t),
         mode, Tail(scores), t)

ZeroScores(tcodes) == [i \in 1..Len(tcodes) |-> ZeroScore(tcodes[i])]

\* The rows of the aggregation: the identifiers among tcodes that have votes.
FreshScores(tcodes, voteTable) ==
  [i \in 1..Len(tcodes) |-> ScoreFromVotes(tcodes[i], voteTable[tcodes[i]])]

VotedAmong(uncached, voteTable) ==
  Tcodes(SelectSeq(CatalogRows,
                   LAMBDA e : e.tcode \in Range(uncached) /\ voteTable[e.tcode].total > 0))

\* The uncached identifiers that the aggregation gave no row for.
Unvoted(uncached, withFresh) ==
  DedupTexts(<<>>, SelectSeq(uncached, LAMBDA u : ~HasTcode(withFresh, u)))

ScoresAnswered(rd, mode, fresh, zeroScores, t) ==
  [scores |-> MapSetAll(MapSetAll(rd.cached, fresh), zeroScores),
   cache |-> WriteScores(WriteScores(rd.cache, mode, fresh, t), mode, zeroScores, t),
   asked |-> TRUE]

ScoresAfterRead(rd, mode, voteTable, fresh, dbAnswers, t) ==
  IF Len(rd.uncached) = 0
  THEN [scores |-> rd.cached, cache |-> rd.cache, asked |-> FALSE]
  ELSE IF ~dbAnswers
  THEN [scores |-> MapSetAllIfAbsent(rd.cached, ZeroScores(rd.uncached)),
        cache |-> rd.cache, asked |-> TRUE]
  ELSE ScoresAnswered(rd, mode, fresh,
                      ZeroScores(Unvoted(rd.uncached, MapSetAll(rd.cached, fresh))), t)

ScoresFromRead(rd, mode, voteTable, dbAnswers, t) ==
  ScoresAfterRead(rd, mode, voteTable,
                  FreshScores(VotedAmong(rd.uncached, voteTable), voteTable),
                  dbAnswers, t)

\* getFeedbackScores: [scores, cache, asked].  dbAnswers is whether the
\* aggregation query answered (TRUE) or threw (FALSE); asked is whether
\* the query was made.
getFeedbackScores(cache, mode, tcodes, voteTable, dbAnswers, t) ==
  IF Len(tcodes) = 0 THEN [scores |-> <<>>, cache |-> cache, asked |-> FALSE]
  ELSE ScoresFromRead(
         ReadCachedScores([cache |-> cache, cached |-> <<>>, uncached |-> <<>>],
                          mode, tcodes, 1, t),
         mode, voteTable, dbAnswers, t)

\* applyFeedbackBoostToAI, given the scores.
BoostByScores(rs, scores) ==
  [i \in 1..Len(rs) |->
     LET hits == {k \in 1..Len(scores) : scores[k].tcode = rs[i].tcode}
     IN IF hits = {} THEN rs[i]
        ELSE LET f == scores[CHOOSE k \in hits : TRUE].boostFactor
             IN IF f = 1000 THEN rs[i]
                ELSE [rs[i] EXCEPT !.confidence =
                        Min(FEEDBACK_CONFIDENCE_CAP, Mul(rs[i].confidence, f, 1000))]]

(***************************************************************************)
(* Deep-reasoning fallback (ai-fallback.ts)                                *)
(*                                                                         *)
(* A suggestion is [hasTcode, tcode, description, explanation,             *)
(* confidence]; a validation is [tcode, isValid, note, adjustedConfidence].*)
(***************************************************************************)
FindValidation(validations, t) ==
  LET hits == {i \in 1..Len(validations) : ToUpper(validations[i].tcode) = ToUpper(t)}
  IN IF hits = {} THEN 0 ELSE CHOOSE i \in hits : \A j \in hits : i <= j

\* The loop dereferences suggestion.tcode: a suggestion without one throws.
FallbackThrows(suggestions) == \E i \in 1..Len(suggestions) : ~suggestions[i].hasTcode

RECURSIVE FallbackMerge(_, _)
FallbackMerge(suggestions, validations) ==
  IF Len(suggestions) = 0 THEN <<>>
  ELSE LET sg == suggestions[1]
           v == FindValidation(validations, sg.tcode)
       IN (IF v # 0 /\ ~validations[v].isValid THEN <<>>
           ELSE << [tcode |-> ToUpper(sg.tcode),
                    description |-> sg.description,
                    explanation |-> IF v # 0 /\ validations[v].note
                                    THEN "suggested-and-validated" ELSE sg.explanation,
                    confidence |-> IF v # 0
                                   THEN Min(validations[v].adjustedConfidence, MAX_AI_CONFIDENCE)
                                   ELSE Min(Mul(sg.confidence, 4, 5), MAX_AI_CONFIDENCE - 100),
                    source |-> "ai-generated", aiGenerated |-> TRUE] >>)
          \o FallbackMerge(Tail(suggestions), validations)

\* generateAIFallbackSuggestions, steps 3 to the slice.
FallbackResults(suggestions, validations, lim) ==
  Take(SortByConfidence(FallbackMerge(suggestions, validations)), lim)


(***************************************************************************)
(* The collaborators: what they may answer                                 *)
(***************************************************************************)
Txt_po == <<" ","p","o">>

\* The expansion the reasoning model gives for a query.
ExpansionOf(queryText) == queryText \o Txt_po

Row(t, sim) == [tcode |-> t, similarity |-> sim]

\* The vector store: the rows that have an embedding, nearest first, with
\* 1 - distance, for the text an embedding was computed from.  "full" has
\* an embedding for every row, "empty" for none.
VectorIndexes == {"full", "empty"}

NearestRows(index, text) ==
  IF index = "empty" THEN <<>>
  ELSE IF Includes(ToLower(text), <<"p","a","y">>)
  THEN << Row(Txt_PM01, 520), Row(Txt_PM10, 500), Row(Txt_ME21N, 100),
          Row(Txt_ME21, 90), Row(Txt_ME22N, -50) >>
  ELSE IF Includes(text, Txt_po)
  THEN << Row(Txt_ME22N, 700), Row(Txt_ME21, 680), Row(Txt_ME21N, 650),
          Row(Txt_PM10, 100), Row(Txt_PM01, -100) >>
  ELSE << Row(Txt_ME21N, 900), Row(Txt_ME21, 880), Row(Txt_ME22N, 560),
          Row(Txt_PM10, 200), Row(Txt_PM01, -100) >>

\* executeSemanticSearch, the query and the mapping of its rows:
\* non-deprecated rows only, LIMIT limit, similarity clamped to [0, 1].
SemanticRows(index, text, lim) ==
  LET rows == Take(SelectSeq(NearestRows(index, text),
                             LAMBDA r : ~CatalogEntry(r.tcode).isDeprecated), lim)
  IN [i \in 1..Len(rows) |->
        [tcode |-> rows[i].tcode,
         description |-> CatalogEntry(rows[i].tcode).description,
         relevanceScore |-> Max(0, Min(1000, rows[i].similarity)),
         matchType |-> "semantic"]]

\* How a semantic search whose results are not cached may go: the
\* embedding service and the vector query each answer, throw or never
\* answer (the embedding is not asked for when it is cached).
SemanticOutcomes == {"ok", "embedError", "embedHang", "queryError", "queryHang"}

\* The outcomes the model explores: the vector query throws, the embedding
\* service never answers.
SemanticOutcomesExplored == {"ok", "queryError", "embedHang"}

\* Replies of the re-ranker model that parse, for the candidates sent.
Verdict(t, c) == [tcode |-> t, explanation |-> "model", confidence |-> c]

\* A reply that ranks every candidate, in the order sent.
RankedReply(cands) ==
  [i \in 1..Len(cands) |-> Verdict(cands[i].tcode, 950 - 250 * (i - 1))]

RerankReplies(cands) ==
  IF Len(cands) = 0 THEN {} ELSE
  { RankedReply(cands),
    << Verdict(cands[1].tcode, 1500) >>,
    [i \in 1..Len(cands) |->
       [tcode |-> ToLower(cands[i].tcode), explanation |-> "",
        confidence |-> IF i = 1 THEN -200 ELSE 300]] }

\* Replies of the judge that parse, for the results sent.
Judgment(t, e, c) == [tcode |-> t, correctedExplanation |-> e, correctedConfidence |-> c]

JudgeReplies(rs) ==
  IF Len(rs) = 0 THEN {} ELSE
  { << Judgment(ToLower(rs[1].tcode), "", {100}),
       Judgment(rs[Len(rs)].tcode, "judge", {}),
       Judgment(rs[Len(rs)].tcode, "", {1200}) >> }

\* Texts the web-search provider returns; the empty text also stands for
\* its error, its timeout and a missing API key.
WebContents ==
  { <<>>,
    <<"S","A","P"," ","M","E","2","1","N"," ","M","E","2","1"," ","Z","Z","9"," ","M","e","2","2","n">> }

\* Suggestion lists of the deep-reasoning model; <<>> also stands for its
\* error, its timeout and an unparsable reply.
Suggestion(has, t, c) ==
  [hasTcode |-> has, tcode |-> t, description |-> <<"a","i">>,
   explanation |-> "suggested", confidence |-> c]

SuggestionLists ==
  { <<>>,
    << Suggestion(TRUE, ToLower(Txt_ME21N), 900), Suggestion(TRUE, Txt_ME21N, 500) >>,
    << Suggestion(TRUE, Txt_ZZ9, -300), Suggestion(TRUE, Txt_ME22N, 700) >>,
    << Suggestion(FALSE, <<>>, 500) >> }

Validation(t, ok, c) == [tcode |-> t, isValid |-> ok, note |-> TRUE, adjustedConfidence |-> c]

\* The validation list the second call gives when it answers.
ValidationOf(suggestions) ==
  [i \in 1..Len(suggestions) |->
     Validation(suggestions[i].tcode, i # 2, IF i = 1 THEN 700 ELSE 550)]

\* States of the feedback table.
NoVotes == [t \in {e.tcode : e \in Catalog} |-> [net |-> 0, total |-> 0]]

VotesCast ==
  [NoVotes EXCEPT ![Txt_ME22N] = [net |-> 3, total |-> 3],
                  ![Txt_ME21N] = [net |-> -2, total |-> 2],
                  ![Txt_PM10] = [net |-> 1, total |-> 3]]


(***************************************************************************)
(* State                                                                   *)
(***************************************************************************)
VARIABLES
  now,                \* the clock, in hours
  cache,              \* [mem, store]: the in-process tier and the shared store
  redisMode,          \* "none", "up" or "down"
  openaiKey,          \* OPENAI_API_KEY is set
  braveKey,           \* BRAVE_SEARCH_API_KEY is set
  vectorIndex,        \* the state of the vector store
  votes,              \* the feedback table
  molgaDataCache,     \* molga-lookup.ts: the table is loaded in this process
  served,             \* requests taken so far
  pc,                 \* where the request in flight stands
  query,              \* its query
  limit,              \* its limit
  expandDone,         \* expandQueryWithSAPTerms has settled
  directDone,         \* the direct semantic search has settled
  expandedQuery,
  directCandidates,
  expandedCandidates,
  candidates,         \* the fused candidates
  reranked,           \* the re-ranked list, before the term boost
  results,            \* the result list of the stage reached
  cachedFlag,         \* the value of `cached` that executeAISearch returns
  hung,               \* executeAISearch awaits a call that never settles
  response,           \* what the route answered to the request in flight
  lastWrite,          \* history: the last result list executeAISearch wrote to
                      \* the cache, with its query, its limit and the time
  hybridPc,           \* where the hybridSearch call in flight stands
  options,            \* its options: [query, modules, limit, includeDeprecated]
  exactResults,       \* what executeExactSearch gave
  fuzzyResults,       \* what executeFuzzySearch gave
  ftsResults,         \* what executeFullTextSearch gave
  settled,            \* the strategies that have settled
  hybridResults,      \* what hybridSearch returned
  cacheRet,           \* what the last direct call of getCached returned
  deepGPTResults,     \* what the last deep analysis gave, as results
  callPc,             \* concurrent calls: each call's position
  callResults,        \* concurrent calls: what each call returned
  pending,            \* writes to the shared store that are in flight
  aggRead,            \* concurrent calls: what each call's feedback read gave
  votePc,             \* the vote request: "idle", "created" or "done"
  webCalled           \* history: the last web stage requested a web-search provider

envVars == <<openaiKey, braveKey, vectorIndex, votes>>

localVars == <<query, limit, expandDone, directDone, expandedQuery,
               directCandidates, expandedCandidates, candidates, reranked,
               results, cachedFlag>>

hybridVars == <<hybridPc, options, exactResults, fuzzyResults, ftsResults,
                settled, hybridResults>>

pipelineVars == <<now, cache, redisMode, envVars, molgaDataCache, served, pc,
                  localVars, hung, response, lastWrite>>

\* The pipeline's variables other than the cache.
pipelineVarsButCache == <<now, redisMode, envVars, molgaDataCache, served, pc,
                          localVars, hung, response, lastWrite>>

voteVars == <<aggRead, votePc>>

concVars == <<callPc, callResults, pending, voteVars>>

vars == <<pipelineVars, hybridVars, cacheRet, deepGPTResults, concVars, webCalled>>

\* No direct call of getCached yet.
Calls == {1, 2}

\* No concurrent call is under way.
ConcIdle ==
  /\ callPc = [i \in Calls |-> "idle"]
  /\ callResults = [i \in Calls |-> <<>>]
  /\ pending = {}
  /\ aggRead = [i \in Calls |-> Null]
  /\ votePc = "idle"

NoReturn == [found |-> FALSE, value |-> Null]

NoResponse == [kind |-> "none", results |-> <<>>, cached |-> FALSE, timedOut |-> FALSE]

\* Query texts the route is called with; the last one is too short for the
\* request schema.
Q_short == <<"m","e">>

RouteQueries == Queries \cup {Q_short}

ResetLocals ==
  /\ query' = <<>>
  /\ limit' = 0
  /\ expandDone' = FALSE
  /\ directDone' = FALSE
  /\ expandedQuery' = <<>>
  /\ directCandidates' = <<>>
  /\ expandedCandidates' = <<>>
  /\ candidates' = <<>>
  /\ reranked' = <<>>
  /\ results' = <<>>
  /\ cachedFlag' = FALSE

NoOptions == [query |-> <<>>, modules |-> <<>>, limit |-> 0, includeDeprecated |-> FALSE]

HybridIdle ==
  /\ hybridPc = "idle"
  /\ options = NoOptions
  /\ exactResults = <<>>
  /\ fuzzyResults = <<>>
  /\ ftsResults = <<>>
  /\ settled = {}
  /\ hybridResults = <<>>

Init ==
  /\ now = 0
  /\ cache = [mem |-> <<>>, store |-> EmptyStore]
  /\ redisMode \in {"none", "up", "down"}
  /\ openaiKey \in BOOLEAN
  /\ braveKey \in BOOLEAN
  /\ vectorIndex \in VectorIndexes
  /\ votes = VotesCast
  /\ molgaDataCache = FALSE
  /\ served = 0
  /\ pc = "idle"
  /\ query = <<>>
  /\ limit = 0
  /\ expandDone = FALSE
  /\ directDone = FALSE
  /\ expandedQuery = <<>>
  /\ directCandidates = <<>>
  /\ expandedCandidates = <<>>
  /\ candidates = <<>>
  /\ reranked = <<>>
  /\ results = <<>>
  /\ cachedFlag = FALSE
  /\ hung = FALSE
  /\ response = NoResponse
  /\ lastWrite = <<>>
  /\ cacheRet = NoReturn
  /\ deepGPTResults = <<>>
  /\ ConcIdle
  /\ webCalled = FALSE
  /\ HybridIdle

(***************************************************************************)
(* The route and executeAISearch                                           *)
(***************************************************************************)
\* `${query}:${limit}`
SearchCacheKey(q, l) == q \o <<":">> \o NumText(l)

\* POST, a body that the request schema rejects: status 400.
RejectInvalid(q) ==
  /\ pc = "idle"
  /\ Len(q) < 3
  /\ served' = served + 1
  /\ response' = [NoResponse EXCEPT !.kind = "invalid"]
  /\ UNCHANGED <<webCalled, concVars, deepGPTResults, cacheRet, hybridVars, lastWrite, now, cache, redisMode, envVars, molgaDataCache, pc, localVars, hung>>

\* POST: the request is parsed, then executeWithTimeout starts
\* executeAISearch, which checks the API key and the cache.
Start(q, l) ==
  /\ pc = "idle"
  /\ Len(q) >= 3
  /\ served' = served + 1
  /\ response' = NoResponse
  /\ query' = q
  /\ limit' = l
  /\ UNCHANGED <<webCalled, concVars, deepGPTResults, cacheRet, hybridVars, lastWrite, now, redisMode, envVars, molgaDataCache, hung, expandDone, directDone,
                 expandedQuery, directCandidates, expandedCandidates, candidates, reranked>>
  /\ IF ~openaiKey
     THEN /\ pc' = "threw"
          /\ UNCHANGED <<cache, results, cachedFlag>>
     ELSE LET g == getCached(cache, redisMode, "ai-search-v2", SearchCacheKey(q, l), now)
          IN /\ cache' = g.cache
             /\ IF g.found
                THEN /\ results' = SortByConfidence(g.value)
                     /\ cachedFlag' = TRUE
                     /\ pc' = "returned"
                ELSE /\ pc' = "gather"
                     /\ UNCHANGED <<results, cachedFlag>>

\* expandQueryWithSAPTerms: [expanded, cache].  answered is whether the
\* model's expansion arrived before the 3 s timeout.
ExpandedResult(c, mode, q, expanded, t) ==
  [expanded |-> expanded,
   cache |-> IF expanded # q
             THEN setCached(c, mode, "query-expand", q, expanded, EXPANSION_CACHE_TTL, t)
             ELSE c]

ExpandAfterRead(g, mode, hasKey, q, answered, t) ==
  IF g.found THEN [expanded |-> g.value, cache |-> g.cache]
  ELSE IF ~hasKey THEN [expanded |-> q, cache |-> g.cache]
  ELSE ExpandedResult(g.cache, mode, q, IF answered THEN ExpansionOf(q) ELSE q, t)

expandQueryWithSAPTerms(c, mode, hasKey, q, answered, t) ==
  ExpandAfterRead(getCached(c, mode, "query-expand", q, t), mode, hasKey, q, answered, t)

Expand(answered) ==
  /\ pc = "gather"
  /\ ~hung
  /\ ~expandDone
  /\ LET x == expandQueryWithSAPTerms(cache, redisMode, openaiKey, query, answered, now)
     IN /\ expandedQuery' = x.expanded
        /\ cache' = x.cache
  /\ expandDone' = TRUE
  /\ pc' = IF directDone THEN "expanded" ELSE "gather"
  /\ UNCHANGED <<webCalled, concVars, deepGPTResults, cacheRet, hybridVars, lastWrite, now, redisMode, envVars, molgaDataCache, served, query, limit,
                 directDone, directCandidates, expandedCandidates, candidates,
                 reranked, results, cachedFlag, hung, response>>

\* `${query}:${modules?.join(',') || 'all'}:${includeDeprecated || false}:${limit}`
SemanticCacheKey(text, lim) ==
  text \o <<":","a","l","l",":","f","a","l","s","e",":">> \o NumText(lim)

\* executeSemanticSearch(text, undefined, false, lim): [hung, rows, cache].
Settled(rows, c) == [hung |-> FALSE, rows |-> rows, cache |-> c]

Pending(c) == [hung |-> TRUE, rows |-> <<>>, cache |-> c]

\* The vector query and the write of its rows to the cache.
QueryVectors(c, mode, index, text, embedding, lim, outcome, t) ==
  IF outcome = "queryError" THEN Settled(<<>>, c)
  ELSE IF outcome = "queryHang" THEN Pending(c)
  ELSE Settled(SemanticRows(index, embedding, lim),
               setCached(c, mode, "semantic", SemanticCacheKey(text, lim),
                         SemanticRows(index, embedding, lim), SEMANTIC_CACHE_TTL, t))

\* getQueryEmbedding, after its cache read e; the embedding of a text is
\* modelled by the text.
AfterEmbeddingRead(e, mode, index, text, lim, outcome, t) ==
  IF e.found THEN QueryVectors(e.cache, mode, index, text, e.value, lim, outcome, t)
  ELSE IF outcome = "embedError" THEN Settled(<<>>, e.cache)
  ELSE IF outcome = "embedHang" THEN Pending(e.cache)
  ELSE QueryVectors(setCached(e.cache, mode, "embed", text, text, EMBEDDING_CACHE_TTL, t),
                    mode, index, text, text, lim, outcome, t)

AfterSemanticRead(g, mode, index, text, lim, outcome, t) ==
  IF g.found THEN Settled(g.value, g.cache)
  ELSE AfterEmbeddingRead(getCached(g.cache, mode, "embed", text, t),
                          mode, index, text, lim, outcome, t)

executeSemanticSearch(c, mode, hasKey, index, text, lim, outcome, t) ==
  IF ~hasKey THEN Settled(<<>>, c)
  ELSE AfterSemanticRead(getCached(c, mode, "semantic", SemanticCacheKey(text, lim), t),
                         mode, index, text, lim, outcome, t)

DirectSemantic(outcome) ==
  /\ pc = "gather"
  /\ ~hung
  /\ ~directDone
  /\ LET x == executeSemanticSearch(cache, redisMode, openaiKey, vectorIndex,
                                    query, limit, outcome, now)
     IN /\ cache' = x.cache
        /\ hung' = x.hung
        /\ directCandidates' = x.rows
        /\ directDone' = ~x.hung
        /\ pc' = IF expandDone /\ ~x.hung THEN "expanded" ELSE "gather"
  /\ UNCHANGED <<webCalled, concVars, deepGPTResults, cacheRet, hybridVars, lastWrite, now, redisMode, envVars, molgaDataCache, served, query, limit,
                 expandDone, expandedQuery, expandedCandidates, candidates,
                 reranked, results, cachedFlag, response>>

\* The second semantic search, made when the expansion differs from the
\* query, and the fusion.
ExpandedSemantic(outcome) ==
  /\ pc = "expanded"
  /\ ~hung
  /\ LET x == IF expandedQuery # query
              THEN executeSemanticSearch(cache, redisMode, openaiKey, vectorIndex,
                                         expandedQuery, limit, outcome, now)
              ELSE [hung |-> FALSE, rows |-> <<>>, cache |-> cache]
         fused == FuseCandidates(x.rows, directCandidates, limit)
     IN /\ cache' = x.cache
        /\ hung' = x.hung
        /\ IF x.hung
           THEN UNCHANGED <<pc, expandedCandidates, candidates>>
           ELSE /\ expandedCandidates' = x.rows
                /\ candidates' = fused
                /\ pc' = IF Len(fused) = 0 THEN "fallback" ELSE "rerank"
  /\ UNCHANGED <<webCalled, concVars, deepGPTResults, cacheRet, hybridVars, lastWrite, now, redisMode, envVars, molgaDataCache, served, query, limit,
                 expandDone, directDone, expandedQuery, directCandidates,
                 reranked, results, cachedFlag, response>>

\* `${query.toLowerCase().trim()}:${limit}`
FallbackCacheKey(q, l) == Trim(ToLower(q)) \o <<":">> \o NumText(l)

\* generateAIFallbackSuggestions: [threw, results, cache].
FallbackReturn(c, mode, q, lim, finalResults, t) ==
  [threw |-> FALSE, results |-> finalResults,
   cache |-> IF Len(finalResults) > 0
             THEN setCached(c, mode, "ai-fallback", FallbackCacheKey(q, lim),
                            finalResults, FALLBACK_CACHE_TTL, t)
             ELSE c]

FallbackAfterRead(g, mode, q, lim, suggestions, validations, t) ==
  IF g.found THEN [threw |-> FALSE, results |-> g.value, cache |-> g.cache]
  ELSE IF Len(suggestions) = 0
  THEN [threw |-> FALSE, results |-> <<>>, cache |-> g.cache]
  ELSE IF FallbackThrows(suggestions)
  THEN [threw |-> TRUE, results |-> <<>>, cache |-> g.cache]
  ELSE FallbackReturn(g.cache, mode, q, lim,
                      FallbackResults(suggestions, validations, lim), t)

generateAIFallbackSuggestions(c, mode, hasKey, q, lim, suggestions, validations, t) ==
  IF ~hasKey THEN [threw |-> FALSE, results |-> <<>>, cache |-> c]
  ELSE FallbackAfterRead(getCached(c, mode, "ai-fallback", FallbackCacheKey(q, lim), t),
                         mode, q, lim, suggestions, validations, t)

\* No candidates: executeAISearch returns what the deep-reasoning fallback
\* gives.
Fallback(suggestions, validations) ==
  /\ pc = "fallback"
  /\ ~hung
  /\ LET x == generateAIFallbackSuggestions(cache, redisMode, openaiKey, query, limit,
                                            suggestions, validations, now)
     IN /\ cache' = x.cache
        /\ results' = x.results
        /\ pc' = IF x.threw THEN "threw" ELSE "returned"
  /\ cachedFlag' = FALSE
  /\ UNCHANGED <<webCalled, concVars, deepGPTResults, cacheRet, hybridVars, lastWrite, now, redisMode, envVars, molgaDataCache, served, query, limit,
                 expandDone, directDone, expandedQuery, directCandidates,
                 expandedCandidates, candidates, reranked, hung, response>>

Txt_all == <<"a","l","l">>

\* How a database query may go: it answers, throws or never answers.
DbOutcomes == {"ok", "error", "hang"}

\* loadMolgaData: [status, loaded, cache].
MolgaAfterRead(g, mode, outcome, t) ==
  IF g.found THEN [status |-> "ok", loaded |-> TRUE, cache |-> g.cache]
  ELSE IF outcome = "ok"
  THEN [status |-> "ok", loaded |-> TRUE,
        cache |-> setCached(g.cache, mode, "molga-map", Txt_all, MolgaTable,
                            MOLGA_CACHE_TTL, t)]
  ELSE [status |-> outcome, loaded |-> FALSE, cache |-> g.cache]

loadMolgaData(c, mode, loaded, outcome, t) ==
  IF loaded THEN [status |-> "ok", loaded |-> TRUE, cache |-> c]
  ELSE MolgaAfterRead(getCached(c, mode, "molga-map", Txt_all, t), mode, outcome, t)

\* Country detection for the prompt, the re-ranker call raced against its
\* timeout, the mapping of its reply, the term boost and the sort.
\* reply is <<>> when the model failed, timed out or sent what does not
\* parse, else << verdicts >>.
Rerank(molgaOutcome, reply) ==
  /\ pc = "rerank"
  /\ ~hung
  /\ LET m == loadMolgaData(cache, redisMode, molgaDataCache, molgaOutcome, now)
     IN /\ cache' = m.cache
        /\ molgaDataCache' = m.loaded
        /\ IF m.status = "hang"
           THEN /\ hung' = TRUE
                /\ UNCHANGED <<pc, reranked, results>>
           ELSE LET rr == IF Len(reply) = 0 THEN createDefaultResults(candidates)
                          ELSE ApplyRerankReply(candidates, reply[1])
                IN /\ reranked' = rr
                   /\ results' = SortByConfidence(ApplyTermBoost(rr, query))
                   /\ pc' = "judge"
                   /\ UNCHANGED hung
  /\ UNCHANGED <<webCalled, concVars, deepGPTResults, cacheRet, hybridVars, lastWrite, now, redisMode, envVars, served, query, limit, expandDone,
                 directDone, expandedQuery, directCandidates, expandedCandidates,
                 candidates, cachedFlag, response>>

\* A judge stage that hands its list straight to the locale booster.
JudgeSkipsWeb(reply) ==
  /\ pc = "judge"
  /\ ~hung
  /\ results' = SortByConfidence(IF Len(reply) = 0 THEN results
                                 ELSE applyJudgments(results, reply[1]))
  /\ pc' = "molga"
  /\ UNCHANGED <<webCalled, concVars, deepGPTResults, cacheRet, hybridVars, lastWrite, now, cache, redisMode, envVars, molgaDataCache, served, query,
                 limit, expandDone, directDone, expandedQuery, directCandidates,
                 expandedCandidates, candidates, reranked, cachedFlag, hung, response>>

\* A judge stage whose failure path hands back an empty list instead of the
\* list it was given.
JudgeDropsOnFailure(reply) ==
  /\ pc = "judge"
  /\ ~hung
  /\ results' = SortByConfidence(IF Len(reply) = 0 THEN <<>>
                                 ELSE applyJudgments(results, reply[1]))
  /\ pc' = "web"
  /\ UNCHANGED <<webCalled, concVars, deepGPTResults, cacheRet, hybridVars, lastWrite, now, cache, redisMode, envVars, molgaDataCache, served, query,
                 limit, expandDone, directDone, expandedQuery, directCandidates,
                 expandedCandidates, candidates, reranked, cachedFlag, hung, response>>

\* validateSearchResults and the sort that follows.  reply is <<>> when the
\* judge is disabled, fails, times out or sends what does not parse.
Judge(reply) ==
  /\ pc = "judge"
  /\ ~hung
  /\ results' = SortByConfidence(IF Len(reply) = 0 THEN results
                                 ELSE applyJudgments(results, reply[1]))
  /\ pc' = "web"
  /\ UNCHANGED <<webCalled, concVars, deepGPTResults, cacheRet, hybridVars, lastWrite, now, cache, redisMode, envVars, molgaDataCache, served, query,
                 limit, expandDone, directDone, expandedQuery, directCandidates,
                 expandedCandidates, candidates, reranked, cachedFlag, hung, response>>

\* The web stage without the early return on the top confidence.
WebWithoutThreshold(content, dbOutcome) ==
  /\ pc = "web"
  /\ ~hung
  /\ LET topConfidence == IF Len(results) > 0 THEN results[1].confidence ELSE 0
         triggered == TRUE
         webContent == IF triggered /\ braveKey THEN content ELSE <<>>
         extracted == extractTCodes(webContent)
         asked == triggered /\ Len(extracted) > 0
         webResults == validateAndFetchTCodes(extracted)
     IN /\ webCalled' = (triggered /\ braveKey)
        /\ IF asked /\ dbOutcome = "error"
           THEN /\ pc' = "threw"
                /\ UNCHANGED <<results, hung>>
           ELSE IF asked /\ dbOutcome = "hang"
           THEN /\ hung' = TRUE
                /\ UNCHANGED <<pc, results>>
           ELSE /\ results' = IF asked /\ Len(webResults) > 0
                              THEN SortByConfidence(MergeWebResults(webResults, results))
                              ELSE results
                /\ pc' = "molga"
                /\ UNCHANGED hung
  /\ UNCHANGED <<concVars, deepGPTResults, cacheRet, hybridVars, lastWrite, now, cache, redisMode, envVars, molgaDataCache, served, query,
                 limit, expandDone, directDone, expandedQuery, directCandidates,
                 expandedCandidates, candidates, reranked, cachedFlag, response>>

\* enhanceWithWebSearch and the sort that follows.  webCalled: fetchBraveSearch
\* was reached and had a key to send its request with.
Web(content, dbOutcome) ==
  /\ pc = "web"
  /\ ~hung
  /\ LET topConfidence == IF Len(results) > 0 THEN results[1].confidence ELSE 0
         triggered == topConfidence < WEB_FALLBACK_THRESHOLD
         webContent == IF triggered /\ braveKey THEN content ELSE <<>>
         extracted == extractTCodes(webContent)
         asked == triggered /\ Len(extracted) > 0
         webResults == validateAndFetchTCodes(extracted)
     IN /\ webCalled' = (triggered /\ braveKey)
        /\ IF asked /\ dbOutcome = "error"
           THEN /\ pc' = "threw"
                /\ UNCHANGED <<results, hung>>
           ELSE IF asked /\ dbOutcome = "hang"
           THEN /\ hung' = TRUE
                /\ UNCHANGED <<pc, results>>
           ELSE /\ results' = IF asked /\ Len(webResults) > 0
                              THEN SortByConfidence(MergeWebResults(webResults, results))
                              ELSE results
                /\ pc' = "molga"
                /\ UNCHANGED hung
  /\ UNCHANGED <<concVars, deepGPTResults, cacheRet, hybridVars, lastWrite, now, cache, redisMode, envVars, molgaDataCache, served, query,
                 limit, expandDone, directDone, expandedQuery, directCandidates,
                 expandedCandidates, candidates, reranked, cachedFlag, response>>

\* applyMolgaBoost inside its try, and the sort that follows.
Molga(molgaOutcome) ==
  /\ pc = "molga"
  /\ ~hung
  /\ LET m == IF Len(results) = 0
              THEN [status |-> "ok", loaded |-> molgaDataCache, cache |-> cache]
              ELSE loadMolgaData(cache, redisMode, molgaDataCache, molgaOutcome, now)
     IN /\ cache' = m.cache
        /\ molgaDataCache' = m.loaded
        /\ IF m.status = "hang"
           THEN /\ hung' = TRUE
                /\ UNCHANGED <<pc, results>>
           ELSE /\ results' = IF m.status = "error" THEN results
                              ELSE SortByConfidence(applyMolgaBoost(results, MolgaTable, query))
                /\ pc' = "feedback"
                /\ UNCHANGED hung
  /\ UNCHANGED <<webCalled, concVars, deepGPTResults, cacheRet, hybridVars, lastWrite, now, redisMode, envVars, served, query, limit, expandDone,
                 directDone, expandedQuery, directCandidates, expandedCandidates,
                 candidates, reranked, cachedFlag, response>>

\* The feedback stage with the aggregation's error left uncaught.
FeedbackWithoutCatch(dbOutcome) ==
  /\ pc = "feedback"
  /\ ~hung
  /\ LET f == getFeedbackScores(cache, redisMode, Tcodes(results), votes,
                                dbOutcome = "ok", now)
     IN IF f.asked /\ dbOutcome = "hang"
        THEN /\ hung' = TRUE
             /\ cache' = f.cache
             /\ UNCHANGED <<pc, results, cachedFlag, lastWrite>>
        ELSE IF f.asked /\ dbOutcome = "error"
        THEN /\ pc' = "threw"
             /\ cache' = f.cache
             /\ UNCHANGED <<hung, results, cachedFlag, lastWrite>>
        ELSE LET finalResults == SortByConfidence(BoostByScores(results, f.scores))
             IN /\ results' = finalResults
                /\ cache' = setCached(f.cache, redisMode, "ai-search-v2",
                                      SearchCacheKey(query, limit), finalResults,
                                      CACHE_TTL, now)
                /\ lastWrite' = << [query |-> query, limit |-> limit,
                                     results |-> finalResults, at |-> now] >>
                /\ cachedFlag' = FALSE
                /\ pc' = "returned"
                /\ UNCHANGED hung
  /\ UNCHANGED <<webCalled, concVars, deepGPTResults, cacheRet, hybridVars, now, redisMode, envVars, molgaDataCache, served, query,
                 limit, expandDone, directDone, expandedQuery, directCandidates,
                 expandedCandidates, candidates, reranked, response>>

\* applyFeedbackBoostToAI inside its try, the sort, the cache write and
\* the return.
Feedback(dbOutcome) ==
  /\ pc = "feedback"
  /\ ~hung
  /\ LET f == getFeedbackScores(cache, redisMode, Tcodes(results), votes,
                                dbOutcome = "ok", now)
     IN IF f.asked /\ dbOutcome = "hang"
        THEN /\ hung' = TRUE
             /\ cache' = f.cache
             /\ UNCHANGED <<pc, results, cachedFlag, lastWrite>>
        ELSE LET finalResults == SortByConfidence(BoostByScores(results, f.scores))
             IN /\ results' = finalResults
                /\ cache' = setCached(f.cache, redisMode, "ai-search-v2",
                                      SearchCacheKey(query, limit), finalResults,
                                      CACHE_TTL, now)
                /\ lastWrite' = << [query |-> query, limit |-> limit,
                                     results |-> finalResults, at |-> now] >>
                /\ cachedFlag' = FALSE
                /\ pc' = "returned"
                /\ UNCHANGED hung
  /\ UNCHANGED <<webCalled, concVars, deepGPTResults, cacheRet, hybridVars, now, redisMode, envVars, molgaDataCache, served, query,
                 limit, expandDone, directDone, expandedQuery, directCandidates,
                 expandedCandidates, candidates, reranked, response>>

\* executeAISearch has settled: the route answers, unless the global
\* deadline already made it answer.
Respond ==
  /\ pc \in {"returned", "threw"}
  /\ response' = IF response.kind # "none" THEN response
                 ELSE IF pc = "threw" THEN [NoResponse EXCEPT !.kind = "error"]
                 ELSE [kind |-> "ok", results |-> results, cached |-> cachedFlag,
                       timedOut |-> FALSE]
  /\ pc' = "idle"
  /\ ResetLocals
  /\ UNCHANGED <<webCalled, concVars, deepGPTResults, cacheRet, hybridVars, lastWrite, now, cache, redisMode, envVars, molgaDataCache, served, hung>>

\* A deadline that never fires.
GlobalTimeoutNever == FALSE /\ UNCHANGED vars

\* executeWithTimeout: the global deadline passes before executeAISearch
\* settles.  executeAISearch goes on, unobserved.
GlobalTimeout ==
  /\ pc \notin {"idle", "returned", "threw"}
  /\ response.kind = "none"
  /\ response' = [kind |-> "ok", results |-> <<>>, cached |-> FALSE, timedOut |-> TRUE]
  /\ UNCHANGED <<webCalled, concVars, deepGPTResults, cacheRet, hybridVars, lastWrite, now, cache, redisMode, envVars, molgaDataCache, served, pc,
                 localVars, hung>>

\* The request was answered at the deadline and its executeAISearch awaits
\* a call that never settles: nothing more comes of it.
Abandon ==
  /\ hung
  /\ response.kind # "none"
  /\ hung' = FALSE
  /\ pc' = "idle"
  /\ ResetLocals
  /\ UNCHANGED <<webCalled, concVars, deepGPTResults, cacheRet, hybridVars, lastWrite, now, cache, redisMode, envVars, molgaDataCache, served, response>>

\* Time passes between requests; the clock starts with the first one.
Tick(d) ==
  /\ pc = "idle"
  /\ served > 0
  /\ now < MaxTime
  /\ now' = now + d
  /\ UNCHANGED <<webCalled, concVars, deepGPTResults, cacheRet, hybridVars, lastWrite, cache, redisMode, envVars, molgaDataCache, served, pc, localVars,
                 hung, response>>

\* The shared store becomes unreachable, or reachable again.
RedisFlip ==
  /\ pc = "idle"
  /\ served > 0
  /\ redisMode # "none"
  /\ redisMode' = IF redisMode = "up" THEN "down" ELSE "up"
  /\ UNCHANGED <<webCalled, concVars, deepGPTResults, cacheRet, hybridVars, lastWrite, now, cache, envVars, molgaDataCache, served, pc, localVars,
                 hung, response>>

(***************************************************************************)
(* hybridSearch (hybrid-search.ts)                                         *)
(*                                                                         *)
(* A SearchResult is [tcode, description, module, relevanceScore,          *)
(* matchType, isDeprecated]; the program field is carried through and left *)
(* out, and the rows have no descriptionEnriched.                          *)
(***************************************************************************)
EXACT_TAKE == 5

FUZZY_TAKE == 20

FULLTEXT_TAKE == 30

Txt_ME22 == <<"M","E","2","2">>

Txt_displayOrder == <<"d","i","s","p","l","a","y"," ","o","r","d","e","r">>

Txt_MM == <<"M","M">>

Txt_HR == <<"H","R">>

\* transaction_codes rows with their module, listed by identifier.
LexicalRow(t, d, m, dep) ==
  [tcode |-> t, description |-> d, module |-> m, isDeprecated |-> dep]

LexicalCatalog ==
  << LexicalRow(Txt_ME21,  Txt_createOrder,  Txt_MM, TRUE),
     LexicalRow(Txt_ME21N, Txt_createOrder,  Txt_MM, FALSE),
     LexicalRow(Txt_ME22,  Txt_displayOrder, Txt_MM, FALSE),
     LexicalRow(Txt_ME22N, Txt_changeOrder,  Txt_MM, FALSE),
     LexicalRow(Txt_PM01,  Txt_germanPay,    Txt_HR, FALSE),
     LexicalRow(Txt_PM10,  Txt_usaPay,       Txt_HR, FALSE) >>

\* The module and isDeprecated conditions of the three where clauses.
PassesFilters(r, modules, includeDeprecated) ==
  /\ Len(modules) > 0 => r.module \in Range(modules)
  /\ ~includeDeprecated => ~r.isDeprecated

SearchResult(r, score, matchType) ==
  [tcode |-> r.tcode, description |-> r.description, module |-> r.module,
   relevanceScore |-> score, matchType |-> matchType, isDeprecated |-> r.isDeprecated]

\* equals, startsWith and contains with mode 'insensitive' compare without
\* case.
executeExactSearch(q, modules, includeDeprecated) ==
  LET upperQuery == ToUpper(q)
      rows == Take(SelectSeq(LexicalCatalog,
                     LAMBDA r : /\ ToUpper(r.tcode) = ToUpper(upperQuery)
                                /\ PassesFilters(r, modules, includeDeprecated)),
                   EXACT_TAKE)
  IN [i \in 1..Len(rows) |-> SearchResult(rows[i], 1000, "exact")]

FuzzyScore(tcodeUpper, upperQuery) ==
  IF tcodeUpper = upperQuery THEN 1000
  ELSE IF StartsWith(tcodeUpper, upperQuery)
  THEN 900 - (Len(tcodeUpper) - Len(upperQuery)) * 20
  ELSE IF Includes(tcodeUpper, upperQuery)
  THEN 700 - (Len(tcodeUpper) - Len(upperQuery)) * 20
  ELSE 500

executeFuzzySearch(q, modules, includeDeprecated) ==
  LET upperQuery == ToUpper(q)
      rows == Take(SelectSeq(LexicalCatalog,
                     LAMBDA r : /\ \/ StartsWith(ToUpper(r.tcode), ToUpper(upperQuery))
                                   \/ Includes(ToUpper(r.tcode), ToUpper(upperQuery))
                                /\ PassesFilters(r, modules, includeDeprecated)),
                   FUZZY_TAKE)
  IN [i \in 1..Len(rows) |->
        SearchResult(rows[i], Max(100, FuzzyScore(ToUpper(rows[i].tcode), upperQuery)),
                     "fuzzy")]

Reverse(rs) == [i \in 1..Len(rs) |-> rs[Len(rs) + 1 - i]]

\* `${r.tcode} ${r.description || ''} ${r.descriptionEnriched || ''}`.toLowerCase()
FullText(r) == ToLower(r.tcode \o <<" ">> \o r.description \o <<" ">>)

FullTextWords(q) ==
  LET long == SelectSeq(SplitSpaces(q), LAMBDA w : Len(w) > 2)
  IN [i \in 1..Len(long) |-> ToLower(long[i])]

FullTextScore(r, words) ==
  (Cardinality({i \in 1..Len(words) : Includes(FullText(r), words[i])}) * 800)
    \div Len(words)

\* The query has no orderBy: the rows come in the table's order or, with
\* reversed, in the opposite one.
executeFullTextSearch(q, modules, includeDeprecated, reversed) ==
  LET words == FullTextWords(q)
      matching == SelectSeq(LexicalCatalog,
                    LAMBDA r : /\ \A i \in 1..Len(words) :
                                    \/ Includes(ToLower(r.description), words[i])
                                    \/ Includes(ToLower(r.tcode), words[i])
                               /\ PassesFilters(r, modules, includeDeprecated))
      rows == Take(IF reversed THEN Reverse(matching) ELSE matching, FULLTEXT_TAKE)
  IN IF Len(words) = 0 THEN <<>>
     ELSE [i \in 1..Len(rows) |->
             SearchResult(rows[i], Max(100, FullTextScore(rows[i], words)), "fulltext")]

ScoreOf(rs, t) == rs[CHOOSE i \in 1..Len(rs) : rs[i].tcode = t].relevanceScore

\* hybridSearch, the three loops over the resultMap.
RECURSIVE MergeFuzzy(_, _)
MergeFuzzy(resultMap, fuzzy) ==
  IF Len(fuzzy) = 0 THEN resultMap
  ELSE MergeFuzzy(
         IF ~HasTcode(resultMap, fuzzy[1].tcode) THEN Append(resultMap, fuzzy[1])
         ELSE IF fuzzy[1].relevanceScore > ScoreOf(resultMap, fuzzy[1].tcode)
              THEN MapSet(resultMap, fuzzy[1])
              ELSE resultMap,
         Tail(fuzzy))

RECURSIVE MergeFullText(_, _)
MergeFullText(resultMap, fts) ==
  IF Len(fts) = 0 THEN resultMap
  ELSE MergeFullText(
         IF ~HasTcode(resultMap, fts[1].tcode) THEN Append(resultMap, fts[1])
         ELSE [i \in 1..Len(resultMap) |->
                 IF resultMap[i].tcode = fts[1].tcode
                 THEN [resultMap[i] EXCEPT !.relevanceScore = Min(1000, Mul(@, 6, 5))]
                 ELSE resultMap[i]],
         Tail(fts))

MergeExact(exact) ==
  MapSetAll(<<>>, [i \in 1..Len(exact) |-> [exact[i] EXCEPT !.relevanceScore = 1000]])

\* A sort by relevanceScore that is not stable: equal scores come out in
\* the reverse of their input order.
SortByRelevanceUnstable(rs) ==
  SortDescBy(Reverse(rs), [i \in 1..Len(rs) |-> Reverse(rs)[i].relevanceScore])

\* sort((a, b) => b.relevanceScore - a.relevanceScore)
SortByRelevance(rs) == SortDescBy(rs, [i \in 1..Len(rs) |-> rs[i].relevanceScore])

MergeStrategies(exact, fuzzy, fts, lim) ==
  Take(SortByRelevance(MergeFullText(MergeFuzzy(MergeExact(exact), fuzzy), fts)), lim)

\* Query texts, module filters and limits hybridSearch is called with.
HybridQueries ==
  { Txt_ME21N,
    <<" ","m","e","2","1","n"," ">>,
    <<"m","e","2","2">>,
    Txt_ME21,
    <<"o","r","d","e","r">>,
    <<"P","M">>,
    <<"e","2","1">>,
    <<"m","e","2","2"," ","o","r","d","e","r">> }

ModuleFilters == { <<>>, <<Txt_MM>>, <<Txt_HR>> }

HybridStart(q, modules, lim, includeDeprecated) ==
  /\ hybridPc \in {"idle", "done", "threw"}
  /\ hybridPc' = "searching"
  /\ options' = [query |-> q, modules |-> modules, limit |-> lim,
                 includeDeprecated |-> includeDeprecated]
  /\ exactResults' = <<>>
  /\ fuzzyResults' = <<>>
  /\ ftsResults' = <<>>
  /\ settled' = {}
  /\ hybridResults' = <<>>
  /\ UNCHANGED <<webCalled, concVars, deepGPTResults, cacheRet, pipelineVars>>

\* query.trim().toLowerCase()
NormalizedQuery == ToLower(Trim(options.query))

ExactSearch(outcome) ==
  /\ hybridPc = "searching"
  /\ "exact" \notin settled
  /\ settled' = settled \cup {"exact"}
  /\ IF outcome = "ok"
     THEN /\ exactResults' = executeExactSearch(NormalizedQuery, options.modules,
                                                options.includeDeprecated)
          /\ UNCHANGED hybridPc
     ELSE /\ hybridPc' = "threw"
          /\ UNCHANGED exactResults
  /\ UNCHANGED <<webCalled, concVars, deepGPTResults, cacheRet, pipelineVars, options, fuzzyResults, ftsResults, hybridResults>>

FuzzySearch(outcome) ==
  /\ hybridPc = "searching"
  /\ "fuzzy" \notin settled
  /\ settled' = settled \cup {"fuzzy"}
  /\ IF outcome = "ok"
     THEN /\ fuzzyResults' = executeFuzzySearch(NormalizedQuery, options.modules,
                                                options.includeDeprecated)
          /\ UNCHANGED hybridPc
     ELSE /\ hybridPc' = "threw"
          /\ UNCHANGED fuzzyResults
  /\ UNCHANGED <<webCalled, concVars, deepGPTResults, cacheRet, pipelineVars, options, exactResults, ftsResults, hybridResults>>

FullTextSearch(outcome, reversed) ==
  /\ hybridPc = "searching"
  /\ "fulltext" \notin settled
  /\ settled' = settled \cup {"fulltext"}
  /\ IF outcome = "ok"
     THEN /\ ftsResults' = executeFullTextSearch(options.query, options.modules,
                                                 options.includeDeprecated, reversed)
          /\ UNCHANGED hybridPc
     ELSE /\ hybridPc' = "threw"
          /\ UNCHANGED ftsResults
  /\ UNCHANGED <<webCalled, concVars, deepGPTResults, cacheRet, pipelineVars, options, exactResults, fuzzyResults, hybridResults>>

\* The three strategies have answered: merge, sort, slice, return.
HybridReturn ==
  /\ hybridPc = "searching"
  /\ settled = {"exact", "fuzzy", "fulltext"}
  /\ hybridResults' = MergeStrategies(exactResults, fuzzyResults, ftsResults, options.limit)
  /\ hybridPc' = "done"
  /\ UNCHANGED <<webCalled, concVars, deepGPTResults, cacheRet, pipelineVars, options, exactResults, fuzzyResults, ftsResults, settled>>

NextHybrid ==
  \/ \E q \in HybridQueries, m \in ModuleFilters, l \in Limits, d \in BOOLEAN :
       HybridStart(q, m, l, d)
  \/ \E o \in {"ok", "error"} : ExactSearch(o)
  \/ \E o \in {"ok", "error"} : FuzzySearch(o)
  \/ \E o \in {"ok", "error"}, reversed \in BOOLEAN : FullTextSearch(o, reversed)
  \/ HybridReturn

\* hybridSearch alone, in a process whose search pipeline is at rest.
InitHybrid ==
  /\ Init
  /\ redisMode = "none"
  /\ openaiKey
  /\ braveKey
  /\ vectorIndex = "full"

SpecHybrid == InitHybrid /\ [][NextHybrid]_vars

\* What the race of the re-ranker call gives for the candidates at hand:
\* <<>> (error, timeout, unparsable reply) or a parsed reply.
RerankOutcomes == {<<>>} \cup {<<v>> : v \in RerankReplies(candidates)}

Next ==
  \/ \E q \in RouteQueries : served < MaxRequests /\ RejectInvalid(q)
  \/ \E q \in {Q_createOrder, Q_usaPay}, l \in Limits :
       served < MaxRequests /\ Start(q, l)
  \/ \E answered \in BOOLEAN : Expand(answered)
  \/ \E outcome \in SemanticOutcomesExplored : DirectSemantic(outcome)
  \/ \E outcome \in SemanticOutcomesExplored : ExpandedSemantic(outcome)
  \/ \E sg \in SuggestionLists, withValidation \in BOOLEAN :
       Fallback(sg, IF withValidation THEN ValidationOf(sg) ELSE <<>>)
  \/ \E m \in DbOutcomes, r \in RerankOutcomes : Rerank(m, r)
  \/ \E r \in {<<>>} \cup {<<j>> : j \in JudgeReplies(results)} : Judge(r)
  \/ \E content \in WebContents, d \in DbOutcomes : Web(content, d)
  \/ \E m \in DbOutcomes : Molga(m)
  \/ \E d \in DbOutcomes : Feedback(d)
  \/ Respond
  \/ GlobalTimeout
  \/ Abandon

Spec == Init /\ [][Next]_vars

\* The timer of executeWithTimeout fires if the request stays unanswered,
\* and a settled executeAISearch is followed by the route's answer.
FairSpec == Spec /\ WF_vars(GlobalTimeout) /\ WF_vars(Respond)

\* Requests that follow one another while time passes and the shared
\* store comes and goes; every collaborator answers, and the answer is
\* the same each time.
NextRepeat ==
  \/ \E q \in Queries, l \in Limits : served < MaxRepeats /\ Start(q, l)
  \/ Expand(TRUE)
  \/ DirectSemantic("ok")
  \/ ExpandedSemantic("ok")
  \/ \E sg \in {<< Suggestion(TRUE, Txt_ZZ9, 400), Suggestion(TRUE, ToLower(Txt_ME22N), 700) >>} :
       Fallback(sg, <<>>)
  \/ Rerank("ok", << RankedReply(candidates) >>)
  \/ Judge(<<>>)
  \/ \E content \in WebContents : Web(content, "ok")
  \/ Molga("ok")
  \/ Feedback("ok")
  \/ Respond
  \/ \E d \in {1, CACHE_TTL} : Tick(d)
  \/ RedisFlip

SpecRepeat == Init /\ [][NextRepeat]_vars


(***************************************************************************)
(* Properties                                                              *)
(***************************************************************************)
NoDuplicateIdentifiers(rs) ==
  \A i, j \in 1..Len(rs) : i # j => ToUpper(rs[i].tcode) # ToUpper(rs[j].tcode)

ConfidencesInRange(rs) ==
  \A i \in 1..Len(rs) : rs[i].confidence >= 0 /\ rs[i].confidence <= 1000

\* C1: every result list that executeAISearch returns (cache hit, cache
\* miss, deep-reasoning fallback, web-merged) holds no two candidates whose
\* identifiers are equal when compared case-insensitively.
C1_NoDuplicateIdentifiers ==
  pc = "returned" => NoDuplicateIdentifiers(results)

\* C2: in every result list that executeAISearch returns, every confidence
\* lies in [0, 1] (0..1000 here), whatever the re-ranker and the judge
\* report and whatever adjustments follow.
C2_ConfidenceInUnitInterval ==
  pc = "returned" => ConfidencesInRange(results)

\* A request for the pair (query, limit) of the last cache write starts
\* before that entry's TTL has passed.
RepeatsWithinTTL ==
  /\ pc = "idle"
  /\ pc' # "idle"
  /\ openaiKey
  /\ Len(lastWrite) = 1
  /\ query' = lastWrite[1].query
  /\ limit' = lastWrite[1].limit
  /\ now < lastWrite[1].at + CACHE_TTL

\* C3: once executeAISearch has written the result list of a (query,
\* limit) pair to the cache, a repeated identical query made before the
\* TTL expires is answered from the cache (cached = true) with the
\* candidates in the order of the original response.
C3_RepeatServedFromCache ==
  [][RepeatsWithinTTL =>
       /\ pc' = "returned"
       /\ cachedFlag'
       /\ Tcodes(results') = Tcodes(lastWrite[1].results)]_vars

\* The call's trimmed query equals, without case, the identifier of a
\* catalog entry that is not deprecated.
ExactTargets ==
  {i \in 1..Len(LexicalCatalog) :
     /\ ~LexicalCatalog[i].isDeprecated
     /\ ToUpper(Trim(options.query)) = ToUpper(LexicalCatalog[i].tcode)}

FirstIsExact(i) ==
  /\ Len(hybridResults) > 0
  /\ hybridResults[1].tcode = LexicalCatalog[i].tcode
  /\ hybridResults[1].relevanceScore = 1000

\* C4 as stated: whenever the trimmed query equals (without case) the
\* identifier of a present, non-deprecated catalog entry, hybridSearch
\* returns that entry first with relevanceScore 1.0.
C4_ExactMatchFirst_AsStated ==
  hybridPc = "done" => \A i \in ExactTargets : FirstIsExact(i)

\* C4, amended: the same, for an entry that the call's module filter, if
\* any, admits.
C4_ExactMatchFirst ==
  hybridPc = "done" =>
    \A i \in ExactTargets :
      (Len(options.modules) > 0 => LexicalCatalog[i].module \in Range(options.modules))
        => FirstIsExact(i)

\* A call for "me22" has returned: ME22 matches exactly, ME22N reaches 1.0
\* as well (0.88 as a prefix match, boosted by the full-text hit).
C4_Witness ==
  /\ hybridPc = "done"
  /\ ExactTargets # {}
  /\ Len(hybridResults) > 1
  /\ hybridResults[1].relevanceScore = 1000
  /\ hybridResults[2].relevanceScore = 1000
  /\ hybridResults[1].tcode = Txt_ME22

\* C5: with no credentials configured (so that no external model or web
\* service is used) a query with no catalog matches gets an empty result
\* list with cached = false: the search neither throws nor answers with
\* an error.
C5_NoCredentialsEmptyList ==
  (~openaiKey /\ ~braveKey) =>
    /\ pc # "threw"
    /\ response.kind # "error"
    /\ pc = "returned" => (results = <<>> /\ ~cachedFlag)

\* The re-ranked list rr has one entry per candidate, in the candidates'
\* order, each with an explanation and a confidence, and a candidate
\* without a verdict in the reply keeps its relevanceScore.
RerankedShape(rr, cands, reply) ==
  /\ Len(rr) = Len(cands)
  /\ \A i \in 1..Len(cands) :
       /\ rr[i].tcode = cands[i].tcode
       /\ rr[i].explanation # ""
       /\ rr[i].confidence \in Int
       /\ (Len(reply) = 0 \/ FindVerdict(reply[1], cands[i].tcode) = 0)
            => rr[i].confidence = cands[i].relevanceScore

\* C6: whatever the re-ranker call gives (a full reply, a reply that omits
\* candidates, an error, a timeout, an unparsable reply), the re-ranked
\* list has exactly one entry per fused candidate, in input order, each
\* with an explanation and a confidence, and a candidate the model gave no
\* verdict for gets its relevanceScore as confidence.
C6_RerankTotal ==
  [][\A m \in DbOutcomes : \A r \in RerankOutcomes :
       (Rerank(m, r) /\ pc' = "judge") => RerankedShape(reranked', candidates, r)]_vars

\* The reply ranked one of several candidates: that one carries the
\* model's verdict, another one the generic explanation and its own
\* relevanceScore.
C6_Witness ==
  /\ pc = "judge"
  /\ Len(candidates) > 1
  /\ Len(reranked) = Len(candidates)
  /\ \E i \in 1..Len(reranked) : reranked[i].explanation = "model"
  /\ \E i \in 1..Len(reranked) :
       /\ reranked[i].explanation = "search-criteria"
       /\ reranked[i].confidence = candidates[i].relevanceScore

SortedByConfidence(rs) ==
  \A i \in 1..(Len(rs) - 1) : rs[i].confidence >= rs[i + 1].confidence

C8_StageFailuresAbsorbed ==
  openaiKey => pc # "threw"

C10_EveryCallHasDeadline ==
  ~hung

\* The request repeats the query text of the last completed pipeline run,
\* whose call of expandQueryWithSAPTerms returned an expansion, before the
\* expansion's TTL has passed, and expandQueryWithSAPTerms runs again.
\* Where the in-process tier is the one read, the least-recently-used
\* eviction has not removed the entry.
SecondExpansion ==
  /\ pc = "gather"
  /\ ~expandDone
  /\ expandDone'
  /\ openaiKey
  /\ Len(lastWrite) = 1
  /\ query = lastWrite[1].query
  /\ now < lastWrite[1].at + EXPANSION_CACHE_TTL
  /\ \/ redisMode = "up"
     \/ LruIndex(cache.mem, generateCacheKey("query-expand", query)) # 0

\* C11: after expandQueryWithSAPTerms(q) has returned an expansion, a
\* second call with the same text finds it in the cache, so that no second
\* call of the model is made, and returns the same expansion, with or
\* without the shared store.
C11_ExpansionIdempotent ==
  [][SecondExpansion =>
       /\ getCached(cache, redisMode, "query-expand", query, now).found
       /\ expandedQuery' = ExpansionOf(query)]_vars

(***************************************************************************)
(* Single stages of executeAISearch, entered with given inputs             *)
(***************************************************************************)
\* executeAISearch of the first request at the given stage; the caller
\* gives the shared store's mode, the votes, the query and the results.
StageInit(stage) ==
  /\ now = 0
  /\ cache = [mem |-> <<>>, store |-> EmptyStore]
  /\ openaiKey = TRUE
  /\ braveKey = TRUE
  /\ vectorIndex = "full"
  /\ molgaDataCache = FALSE
  /\ served = 1
  /\ pc = stage
  /\ limit = MaxLimit
  /\ expandDone = TRUE
  /\ directDone = TRUE
  /\ expandedQuery = <<>>
  /\ directCandidates = <<>>
  /\ expandedCandidates = <<>>
  /\ candidates = <<>>
  /\ reranked = <<>>
  /\ cachedFlag = FALSE
  /\ hung = FALSE
  /\ response = NoResponse
  /\ lastWrite = <<>>
  /\ cacheRet = NoReturn
  /\ deepGPTResults = <<>>
  /\ ConcIdle
  /\ webCalled = FALSE
  /\ HybridIdle

\* A result of the pipeline for a catalog entry, at a given confidence.
ResultAt(t, c) ==
  [tcode |-> t, description |-> CatalogEntry(t).description,
   explanation |-> "model", confidence |-> c,
   source |-> "none", aiGenerated |-> FALSE]

\* Confidences the earlier stages hand on; the re-ranker's and the judge's
\* numbers are not clamped, so values outside [0, 1] are among them.
StageConfidences == {-200, 0, 400, 660, 1000, 2000}

\* Lists of two results for different entries, sorted as the sort before
\* the stage leaves them.
StagePairs ==
  {<<ResultAt(t1, c1), ResultAt(t2, c2)>> :
     <<t1, t2, c1, c2>> \in
       {x \in {Txt_PM10, Txt_PM01, Txt_ME21N} \X {Txt_PM10, Txt_PM01, Txt_ME21N}
               \X StageConfidences \X StageConfidences :
          x[1] # x[2] /\ x[3] >= x[4]}}

MolgaQueries == {Q_usaPay, Txt_germanPay, Q_createOrder}

InitMolga ==
  /\ StageInit("molga")
  /\ redisMode = "none"
  /\ votes = VotesCast
  /\ query \in MolgaQueries
  /\ results \in StagePairs

NextMolga == \E o \in DbOutcomes : Molga(o)

SpecMolga == InitMolga /\ [][NextMolga]_vars

\* The place of an identifier in a list, 0 if it is not there.
PlaceOf(rs, t) ==
  IF HasTcode(rs, t) THEN CHOOSE i \in 1..Len(rs) : rs[i].tcode = t ELSE 0

\* In a step of the locale booster that had the table: i carries the
\* pattern of the locale detected in the query, j the pattern of another
\* locale, and both have the same confidence before the boost.
ConflictingLocales(i, j) ==
  /\ pc = "molga"
  /\ pc' = "feedback"
  /\ molgaDataCache'
  /\ Len(detectCountryInQuery(MolgaTable, query)) > 0
  /\ extractMolgaFromTcode(results[i].tcode) =
       {detectCountryInQuery(MolgaTable, query)[1]}
  /\ extractMolgaFromTcode(results[j].tcode) # {}
  /\ extractMolgaFromTcode(results[j].tcode) #
       {detectCountryInQuery(MolgaTable, query)[1]}
  /\ results[i].confidence = results[j].confidence

MatchingRanksFirst(i, j) ==
  PlaceOf(results', results[i].tcode) < PlaceOf(results', results[j].tcode)

\* C12 as stated: of two candidates with equal confidence and conflicting
\* locale patterns, the one matching the detected locale ranks strictly
\* before the other after applyMolgaBoost and the sort, whatever the
\* confidence.
C12_MatchingLocaleFirst_AsStated ==
  [][\A i, j \in 1..Len(results) :
       ConflictingLocales(i, j) => MatchingRanksFirst(i, j)]_vars

\* C12: of two candidates with equal confidence c, 0 < c < 1.98, and
\* conflicting locale patterns, the one matching the detected locale ranks
\* strictly before the other after applyMolgaBoost and the sort.
C12_MatchingLocaleFirst ==
  [][\A i, j \in 1..Len(results) :
       (/\ ConflictingLocales(i, j)
        /\ results[i].confidence > 0
        /\ results[i].confidence < 1980) => MatchingRanksFirst(i, j)]_vars

\* The booster raised PM10 from 0.4 to 0.6 and halved PM01 to 0.2 for a
\* query that names the USA.
C12_Witness ==
  /\ pc = "feedback"
  /\ molgaDataCache
  /\ query = Q_usaPay
  /\ Len(results) = 2
  /\ results[1].tcode = Txt_PM10 /\ results[1].confidence = 600
  /\ results[2].tcode = Txt_PM01 /\ results[2].confidence = 200

\* The feedback booster entered with the votes cast for its two results:
\* every pair of an upvote and a downvote count from VoteCounts.
VoteCounts == {0, 1, 2, 99, 100, 150, 3000}

Tally(up, down) == [net |-> up - down, total |-> up + down]

VoteTables ==
  {[NoVotes EXCEPT ![Txt_PM10] = Tally(x[1], x[2]), ![Txt_PM01] = Tally(x[3], x[4])] :
     x \in VoteCounts \X VoteCounts \X VoteCounts \X VoteCounts}

InitFeedback ==
  /\ StageInit("feedback")
  /\ redisMode = "none"
  /\ votes \in VoteTables
  /\ query = Q_usaPay
  /\ results = <<ResultAt(Txt_PM10, 660), ResultAt(Txt_PM01, 400)>>

NextFeedback == \E o \in DbOutcomes : Feedback(o)

SpecFeedback == InitFeedback /\ [][NextFeedback]_vars

\* The scores getFeedbackScores computed and kept: the values of the
\* in-process tier's entries under the feedback prefix.
FeedbackEntries ==
  {i \in 1..Len(cache.mem) : cache.mem[i].key.prefix = "feedback-scores"}

\* C13: every boostFactor the feedback booster computes lies in
\* [0.7, 1.5], whatever the upvote and downvote counts, and the factor of
\* an identifier without feedback is 1.0.
C13_BoostFactorInRange ==
  \A i \in FeedbackEntries :
    /\ cache.mem[i].value.boostFactor >= 700
    /\ cache.mem[i].value.boostFactor <= 1500
    /\ votes[cache.mem[i].value.tcode].total = 0 =>
         cache.mem[i].value.boostFactor = 1000

\* One identifier with 150 more downvotes than upvotes got the floor 0.7,
\* the other, without votes, the neutral 1.0.
C13_Witness ==
  \E i, j \in FeedbackEntries :
    /\ cache.mem[i].value.netScore = -150
    /\ cache.mem[i].value.boostFactor = 700
    /\ votes[cache.mem[j].value.tcode].total = 0
    /\ cache.mem[j].value.boostFactor = 1000

\* C14: calculateBoostFactor is monotone in the net score: of two
\* tallies the one with the smaller or equal net score never gets the
\* larger boostFactor.
C14_BoostMonotone ==
  \A i, j \in FeedbackEntries :
    cache.mem[i].value.netScore <= cache.mem[j].value.netScore =>
      cache.mem[i].value.boostFactor <= cache.mem[j].value.boostFactor

\* Net scores -1 and +1 got factors below and above 1.0.
C14_Witness ==
  \E i, j \in FeedbackEntries :
    /\ cache.mem[i].value.netScore = -1
    /\ cache.mem[j].value.netScore = 1
    /\ cache.mem[i].value.boostFactor < 1000
    /\ cache.mem[j].value.boostFactor > 1000

(***************************************************************************)
(* The cache layer called directly (cache.ts)                              *)
(***************************************************************************)
CachePrefix == "query-expand"

CacheQueries == {Q_CreateOrderSpaced, Q_usaPay}

CacheValues == {"a", "b"}

\* The TTL the direct calls use, in hours.
CacheCallTTL == 1

\* getCached(prefix, query) while no request is in flight.
CacheGet(q) ==
  /\ pc = "idle"
  /\ LET g == getCached(cache, redisMode, CachePrefix, q, now)
     IN /\ cache' = g.cache
        /\ cacheRet' = [found |-> g.found, value |-> g.value]
  /\ UNCHANGED <<webCalled, concVars, deepGPTResults, pipelineVarsButCache, hybridVars>>

\* setCached(prefix, query, value, ttl)
CacheSet(q, v) ==
  /\ pc = "idle"
  /\ cache' = setCached(cache, redisMode, CachePrefix, q, v, CacheCallTTL, now)
  /\ UNCHANGED <<webCalled, concVars, deepGPTResults, pipelineVarsButCache, hybridVars, cacheRet>>

\* deleteCached(prefix, query)
CacheDelete(q) ==
  /\ pc = "idle"
  /\ cache' = deleteCached(cache, redisMode, CachePrefix, q)
  /\ UNCHANGED <<webCalled, concVars, deepGPTResults, pipelineVarsButCache, hybridVars, cacheRet>>

NextCache ==
  \/ served < MaxRequests /\ RejectInvalid(Q_short)
  \/ \E q \in CacheQueries : CacheGet(q)
  \/ \E q \in CacheQueries, v \in CacheValues : CacheSet(q, v)
  \/ \E q \in CacheQueries : CacheDelete(q)
  \/ Tick(1)
  \/ RedisFlip

\* The cache layer alone, in a process whose routes are at rest.
InitCache ==
  /\ Init
  /\ openaiKey
  /\ braveKey
  /\ vectorIndex = "full"

SpecCache == InitCache /\ [][NextCache]_vars

\* What the in-process tier alone answers for a query.
InProcess(mem, q, t) == LruGet(mem, generateCacheKey(CachePrefix, q), t)

\* C15: the three operations complete when the shared store raises an
\* error: getCached then returns what the in-process tier holds for the
\* key (or absent), setCached still stores the value in the in-process
\* tier and deleteCached still removes the key from it.
C15_CacheAbsorbsStoreErrors ==
  [][redisMode = "down" =>
       \A q \in CacheQueries :
         /\ CacheGet(q) =>
              /\ cacheRet'.found = InProcess(cache.mem, q, now).found
              /\ cacheRet'.value = InProcess(cache.mem, q, now).value
         /\ \A v \in CacheValues :
              CacheSet(q, v) =>
                /\ InProcess(cache'.mem, q, now).found
                /\ InProcess(cache'.mem, q, now).value = v
         /\ CacheDelete(q) => ~InProcess(cache'.mem, q, now).found]_vars

\* While the shared store fails, getCached returned a value that only the
\* in-process tier holds.
C15_Witness ==
  /\ redisMode = "down"
  /\ cacheRet = [found |-> TRUE, value |-> "a"]
  /\ DOMAIN cache.store = {}
  /\ Len(cache.mem) = 1

\* A query as the claim normalizes it: trimmed, lower-cased, white space
\* collapsed.
NormalizedText(q) == CollapseSpaces(Trim(ToLower(q)))

\* A request starts whose query equals, after normalization, the query of
\* the last cache write, with the same limit, while the tier that is read
\* still holds what was written.
SameSlotExpected ==
  /\ pc = "idle"
  /\ pc' # "idle"
  /\ openaiKey
  /\ Len(lastWrite) = 1
  /\ NormalizedText(query') = NormalizedText(lastWrite[1].query)
  /\ limit' = lastWrite[1].limit
  /\ getCached(cache, redisMode, "ai-search-v2",
               SearchCacheKey(lastWrite[1].query, lastWrite[1].limit), now).found

\* C16: two queries that are equal after trimming, lower-casing and
\* collapsing white space share one cache slot: what executeAISearch
\* cached under one of them is found by executeAISearch under the other,
\* for the same limit.
C16_NormalizedQueriesShareSlot ==
  [][SameSlotExpected => (pc' = "returned" /\ cachedFlag')]_vars

(***************************************************************************)
(* The judge stage when the judge gives nothing usable                     *)
(***************************************************************************)

\* The list validateSearchResults is given: the re-ranked list after the
\* term boost, sorted (part_010:417).
PreJudgeResults == SortByConfidence(ApplyTermBoost(reranked, query))

\* C17: when the judge call times out, errors or sends a reply that
\* parseJudgments or applyJudgments rejects (no JSON, no judgments array, an
\* entry without a tcode), the judge stage hands on the list it was given:
\* the same candidates in the same order with the same explanations and
\* confidences, and the pipeline goes on to the web stage instead of
\* throwing.
C17_JudgeFailureKeepsResults ==
  [][Judge(<<>>) => (results' = results /\ results' = PreJudgeResults /\ pc' = "web")]_vars

\* After a failed judge call on several candidates the web stage is entered
\* with the list as the re-ranker and the term boost left it.
C17_Witness ==
  /\ pc = "web"
  /\ Len(results) > 1
  /\ results = PreJudgeResults
  /\ \E i \in 1..Len(results) : results[i].explanation = "model"

(***************************************************************************)
(* The enhanced low-confidence fallback and the knowledge-only fallback,   *)
(* each entered with given inputs                                          *)
(***************************************************************************)
DEFAULT_CONFIDENCE_THRESHOLD == 800

WEB_RESULT_CONFIDENCE == 780

\* One entry of suggestedTCodes as the model sent it: confidence is {} when
\* the field is missing, source is the text of the field.
DeepSuggestion(t, c, src) == [tcode |-> t, confidence |-> c, source |-> src]

\* Replies of the deep analysis call: <<>> is no reply (timeout, error,
\* missing key, a body that does not parse or has no suggestedTCodes
\* array), <<list>> a reply with that list.
DeepReplies ==
  { <<>>,
    << << DeepSuggestion(ToLower(Txt_ME22N), {990}, "gpt-knowledge"),
          DeepSuggestion(Txt_PM10, {}, "gpt-knowledge") >> >>,
    << << DeepSuggestion(Txt_ZZ9, {900}, "web-validated"),
          DeepSuggestion(Txt_ME21, {-100}, "gpt-knowledge") >> >>,
    << << DeepSuggestion(Txt_ME21N, {0}, "web-validated"),
          DeepSuggestion(Txt_PM01, {3000}, "other") >> >> }

\* A parser that passes the reported confidence on as it is.
parseDeepAnalysisResponseUnclamped(suggestedTCodes) ==
  [i \in 1..Len(suggestedTCodes) |->
     [tcode |-> ToUpper(suggestedTCodes[i].tcode),
      confidence |-> IF suggestedTCodes[i].confidence \in {{}, {0}} THEN 500
                     ELSE CHOOSE c \in suggestedTCodes[i].confidence : TRUE,
      source |-> IF suggestedTCodes[i].source = "web-validated"
                 THEN "web-validated" ELSE "gpt-knowledge"]]

\* parseDeepAnalysisResponse, the map over suggestedTCodes:
\* Math.min(0.85, Math.max(0.3, s.confidence || 0.5)).
parseDeepAnalysisResponse(suggestedTCodes) ==
  [i \in 1..Len(suggestedTCodes) |->
     [tcode |-> ToUpper(suggestedTCodes[i].tcode),
      confidence |-> Min(850, Max(300,
                       IF suggestedTCodes[i].confidence \in {{}, {0}} THEN 500
                       ELSE CHOOSE c \in suggestedTCodes[i].confidence : TRUE)),
      source |-> IF suggestedTCodes[i].source = "web-validated"
                 THEN "web-validated" ELSE "gpt-knowledge"]]

deepAnalysisToAIResults(analysis) ==
  [i \in 1..Len(analysis) |->
     [tcode |-> analysis[i].tcode, description |-> <<"a","i">>,
      explanation |-> "deep-analysis", confidence |-> analysis[i].confidence,
      source |-> IF analysis[i].source = "web-validated" THEN "web" ELSE "ai-generated",
      aiGenerated |-> TRUE]]

\* validateTCodes of the enhanced fallback, given that the query answered.
validateTCodes(tcodes) ==
  IF Len(tcodes) = 0 THEN <<>>
  ELSE LET rows == Take(SelectSeq(CatalogRows,
                          LAMBDA e : e.tcode \in Range(tcodes) /\ ~e.isDeprecated),
                        WEB_VALIDATE_TAKE)
       IN [i \in 1..Len(rows) |->
             [tcode |-> rows[i].tcode, description |-> rows[i].description,
              explanation |-> "enhanced-search",
              confidence |-> WEB_RESULT_CONFIDENCE,
              source |-> "web", aiGenerated |-> FALSE]]

\* mergeAndRankResults, the loop over the web-validated results.
RECURSIVE MergeWebValidated(_, _)
MergeWebValidated(resultMap, webValidatedResults) ==
  IF Len(webValidatedResults) = 0 THEN resultMap
  ELSE MergeWebValidated(
         IF HasTcode(resultMap, webValidatedResults[1].tcode)
         THEN MapSet(resultMap,
                [resultMap[CHOOSE k \in 1..Len(resultMap) :
                             resultMap[k].tcode = webValidatedResults[1].tcode]
                   EXCEPT !.confidence = Min(950, Mul(@, 115, 100)),
                          !.explanation = "verified-through-enhanced-search"])
         ELSE MapSet(resultMap, webValidatedResults[1]),
         Tail(webValidatedResults))

\* mergeAndRankResults, the loop over the suggestions of the deep analysis.
RECURSIVE MergeGptResults(_, _)
MergeGptResults(resultMap, gptResults) ==
  IF Len(gptResults) = 0 THEN resultMap
  ELSE MergeGptResults(
         IF HasTcode(resultMap, gptResults[1].tcode) THEN resultMap
         ELSE MapSet(resultMap, [gptResults[1] EXCEPT !.confidence = Min(750, @)]),
         Tail(gptResults))

mergeAndRankResults(existingResults, webValidatedResults, gptResults) ==
  SortByConfidence(
    MergeGptResults(
      MergeWebValidated(MapSetAll(<<>>, existingResults), webValidatedResults),
      gptResults))

\* enhancedLowConfidenceFallback with the default threshold, with no
\* SERPAPI_API_KEY set (the Google branch resolves to no results).
\* timedOut: the overall 10 s timer won the race.  [status, results, deep].
enhancedLowConfidenceFallback(existingResults, hasOpenai, hasBrave, content, deepReply, dbOutcome, timedOut) ==
  LET topConfidence == IF Len(existingResults) > 0
                       THEN existingResults[1].confidence ELSE 0
      braveTCodes == extractTCodes(IF hasBrave THEN content ELSE <<>>)
      deep == IF hasOpenai /\ Len(deepReply) > 0
              THEN deepAnalysisToAIResults(parseDeepAnalysisResponse(deepReply[1]))
              ELSE <<>>
  IN IF topConfidence >= DEFAULT_CONFIDENCE_THRESHOLD \/ timedOut
     THEN [status |-> "ok", results |-> existingResults, deep |-> <<>>]
     ELSE IF Len(braveTCodes) > 0 /\ dbOutcome = "hang"
     THEN [status |-> "hang", results |-> existingResults, deep |-> deep]
     ELSE IF Len(braveTCodes) > 0 /\ dbOutcome = "error"
     THEN [status |-> "ok", results |-> existingResults, deep |-> deep]
     ELSE [status |-> "ok", deep |-> deep,
           results |-> mergeAndRankResults(existingResults,
                         MapSetAllIfAbsent(<<>>, validateTCodes(braveTCodes)), deep)]

EnhancedFallback(content, deepReply, dbOutcome, timedOut) ==
  /\ pc = "enhance"
  /\ ~hung
  /\ LET x == enhancedLowConfidenceFallback(results, openaiKey, braveKey, content,
                                            deepReply, dbOutcome, timedOut)
     IN /\ results' = x.results
        /\ deepGPTResults' = x.deep
        /\ webCalled' = (braveKey /\ (Len(results) = 0 \/ results[1].confidence < DEFAULT_CONFIDENCE_THRESHOLD))
        /\ hung' = (x.status = "hang")
        /\ pc' = IF x.status = "hang" THEN pc ELSE "enhanced"
  /\ UNCHANGED <<concVars, cacheRet, hybridVars, lastWrite, now, cache, redisMode, envVars,
                 molgaDataCache, served, query, limit, expandDone, directDone,
                 expandedQuery, directCandidates, expandedCandidates, candidates,
                 reranked, cachedFlag, response>>

\* Lists the enhanced fallback is given: what a pipeline run hands on.
ExistingLists ==
  {<<>>} \cup { << ResultAt(Txt_ME21N, c) >> : c \in StageConfidences }
         \cup StagePairs

InitEnhanced ==
  /\ redisMode = "none"
  /\ votes = NoVotes
  /\ query = Q_usaPay
  /\ \/ StageInit("enhance") /\ results \in ExistingLists
     \/ StageInit("fallback") /\ results = <<>>

NextEnhanced ==
  \/ \E content \in WebContents, d \in DeepReplies, o \in DbOutcomes, t \in BOOLEAN :
       EnhancedFallback(content, d, o, t)
  \/ \E sg \in SuggestionLists, withValidation \in BOOLEAN :
       Fallback(sg, IF withValidation THEN ValidationOf(sg) ELSE <<>>)

SpecEnhanced == InitEnhanced /\ [][NextEnhanced]_vars

\* C18: every candidate the knowledge-only fallbacks produce carries a
\* confidence at most the stage's ceiling, whatever number the model
\* reported (0.85 for the deep analysis, 0.6 for
\* generateAIFallbackSuggestions), and is flagged aiGenerated.
C18_FallbackConfidenceCeiling ==
  /\ \A i \in 1..Len(deepGPTResults) :
       /\ deepGPTResults[i].confidence <= 850
       /\ deepGPTResults[i].aiGenerated
  /\ (pc = "returned" /\ Len(reranked) = 0) =>
       \A i \in 1..Len(results) :
         /\ results[i].confidence <= MAX_AI_CONFIDENCE
         /\ results[i].aiGenerated

\* The deep analysis reported 0.99 for an entry and the entry came out at
\* the ceiling, flagged.
C18_Witness ==
  /\ pc = "enhanced"
  /\ \E i \in 1..Len(deepGPTResults) :
       /\ deepGPTResults[i].tcode = Txt_ME22N
       /\ deepGPTResults[i].confidence = 850
       /\ deepGPTResults[i].aiGenerated

\* Whether the catalog has a row for t that is not deprecated.
ValidCatalogEntry(t) == \E e \in Catalog : e.tcode = t /\ ~e.isDeprecated

\* C19: every entry of the list the enhanced fallback returns that is
\* marked as a web hit (source "web") is a catalog entry that exists and is
\* not deprecated.
C19_WebHitsAreCatalogEntries ==
  pc = "enhanced" =>
    \A i \in 1..Len(results) :
      results[i].source = "web" => ValidCatalogEntry(results[i].tcode)

(***************************************************************************)
(* The candidates executeAISearch fuses, against the lexical generator     *)
(***************************************************************************)

\* What hybridSearch returns for the query text with no module filter,
\* deprecated entries left out, when its three queries answer.
LexicalCandidates(q, lim) ==
  MergeStrategies(executeExactSearch(ToLower(Trim(q)), <<>>, FALSE),
                  executeFuzzySearch(ToLower(Trim(q)), <<>>, FALSE),
                  executeFullTextSearch(q, <<>>, FALSE, FALSE), lim)

\* The step of executeAISearch that builds the candidate list.
FusionStep == pc = "expanded" /\ pc' \in {"rerank", "fallback"}

\* C20: the list executeAISearch hands to the re-ranker is the fusion of the
\* lexical and the semantic candidates: every non-deprecated catalog entry
\* the lexical generator matches for the query is among the fused
\* candidates, unless the list is full at 2 x limit.
C20_LexicalCandidatesFused ==
  [][FusionStep =>
       \/ Len(candidates') = 2 * limit
       \/ \A i \in 1..Len(LexicalCandidates(query, 2 * limit)) :
            HasTcode(candidates', LexicalCandidates(query, 2 * limit)[i].tcode)]_vars

(***************************************************************************)
(* The order of the stages of executeAISearch                              *)
(***************************************************************************)

\* The positions executeAISearch may move to from position p: the next
\* stage of the orchestrator, or "threw" where a stage has no catch.
StageSuccessors(p) ==
  CASE p = "idle"     -> {"gather", "returned", "threw"}
    [] p = "gather"   -> {"expanded"}
    [] p = "expanded" -> {"fallback", "rerank"}
    [] p = "fallback" -> {"returned", "threw"}
    [] p = "rerank"   -> {"judge", "threw"}
    [] p = "judge"    -> {"web"}
    [] p = "web"      -> {"molga", "threw"}
    [] p = "molga"    -> {"feedback"}
    [] p = "feedback" -> {"returned"}
    [] OTHER          -> {"idle"}

\* What the in-process tier holds for the request's key.
WrittenEntry(c, q, l, t) ==
  LruGet(c.mem, generateCacheKey("ai-search-v2", SearchCacheKey(q, l)), t)

\* C21: on a cache miss the stages run in the orchestrator's order.  With
\* no fused candidates the deep-reasoning fallback is the only further
\* stage, its list is returned and nothing is written; otherwise the
\* re-ranker with the term boost, the judge, the web fallback (which
\* changes the list only when the top confidence is below the threshold),
\* the locale booster and the feedback booster follow one another, and the
\* sorted list the last stage writes to the cache is the list returned.
C21_StageOrder ==
  [][(pc' # pc /\ ~hung) =>
       /\ pc' \in StageSuccessors(pc)
       /\ (pc = "expanded") => (pc' = "fallback" <=> Len(candidates') = 0)
       /\ (pc = "fallback" /\ pc' = "returned") =>
            (lastWrite' = lastWrite /\ ~cachedFlag')
       /\ (pc = "web" /\ pc' = "molga" /\ Len(results) > 0
           /\ results[1].confidence >= WEB_FALLBACK_THRESHOLD) => results' = results
       /\ (pc = "feedback") =>
            /\ SortedByConfidence(results')
            /\ WrittenEntry(cache', query, limit, now).found
            /\ WrittenEntry(cache', query, limit, now).value = results'
            /\ ~cachedFlag']_vars

\* A request went through every stage, the web fallback included, and
\* returned the list it wrote.
C21_Witness ==
  /\ pc = "returned"
  /\ ~cachedFlag
  /\ Len(results) > 1
  /\ \E i \in 1..Len(results) : results[i].source = "web"
  /\ WrittenEntry(cache, query, limit, now).found
  /\ WrittenEntry(cache, query, limit, now).value = results

(***************************************************************************)
(* Concurrent calls of executeAISearch for one query and limit             *)
(*                                                                         *)
(* Each call reads the cache, computes its list on a miss, and ends with   *)
(* setCached, which it does not await: the in-process write is done when   *)
(* the call returns, the request to the shared store (one HTTP request per *)
(* command, @upstash/redis) is in flight and settles later, in any order.  *)
(***************************************************************************)
ConcQuery == Q_usaPay

ConcLimit == 1

ConcKey == generateCacheKey("ai-search-v2", SearchCacheKey(ConcQuery, ConcLimit))

\* Final lists a call may compute for the query: the collaborators need
\* not answer two calls alike.
ConcLists ==
  { << ResultAt(Txt_PM10, 660), ResultAt(Txt_PM01, 400) >>,
    << ResultAt(Txt_PM01, 700), ResultAt(Txt_PM10, 500) >>,
    << ResultAt(Txt_PM10, 900) >> }

\* The cache check at the head of executeAISearch.
ConcStart(i) ==
  /\ pc = "idle"
  /\ callPc[i] = "idle"
  /\ LET g == getCachedByKey(cache, redisMode, ConcKey, now)
     IN /\ cache' = g.cache
        /\ callPc' = [callPc EXCEPT ![i] = IF g.found THEN "done" ELSE "computing"]
        /\ callResults' = [callResults EXCEPT
                             ![i] = IF g.found THEN SortByConfidence(g.value) ELSE @]
  /\ UNCHANGED <<webCalled, voteVars, pending, deepGPTResults, pipelineVarsButCache, hybridVars, cacheRet>>

\* A tail that writes only the head of the list to the in-process tier.
ConcFinishPartial(i, finalResults) ==
  /\ pc = "idle"
  /\ callPc[i] = "computing"
  /\ cache' = [cache EXCEPT !.mem = LruSet(@, ConcKey, Take(finalResults, 1), CACHE_TTL, now)]
  /\ pending' = IF redisMode = "none" THEN pending
                ELSE pending \cup {[call |-> i, value |-> finalResults]}
  /\ callResults' = [callResults EXCEPT ![i] = finalResults]
  /\ callPc' = [callPc EXCEPT ![i] = "done"]
  /\ UNCHANGED <<webCalled, voteVars, deepGPTResults, pipelineVarsButCache, hybridVars, cacheRet>>

\* The tail of executeAISearch: setCached up to its await, and the return.
ConcFinish(i, finalResults) ==
  /\ pc = "idle"
  /\ callPc[i] = "computing"
  /\ cache' = [cache EXCEPT !.mem = LruSet(@, ConcKey, finalResults, CACHE_TTL, now)]
  /\ pending' = IF redisMode = "none" THEN pending
                ELSE pending \cup {[call |-> i, value |-> finalResults]}
  /\ callResults' = [callResults EXCEPT ![i] = finalResults]
  /\ callPc' = [callPc EXCEPT ![i] = "done"]
  /\ UNCHANGED <<webCalled, voteVars, deepGPTResults, pipelineVarsButCache, hybridVars, cacheRet>>

\* client.set settles: the store takes the value, or the call throws and
\* the error is logged.
StoreSettle(w) ==
  /\ pc = "idle"
  /\ w \in pending
  /\ pending' = pending \ {w}
  /\ cache' = IF redisMode = "up"
              THEN [cache EXCEPT !.store = RedisSet(@, ConcKey, w.value, CACHE_TTL, now)]
              ELSE cache
  /\ UNCHANGED <<webCalled, voteVars, callPc, callResults, deepGPTResults, pipelineVarsButCache, hybridVars, cacheRet>>

InitConcurrent ==
  /\ StageInit("idle")
  /\ redisMode \in {"none", "up"}
  /\ votes = NoVotes
  /\ query = <<>>
  /\ results = <<>>

NextConcurrent ==
  \/ \E i \in Calls : ConcStart(i)
  \/ \E i \in Calls, l \in ConcLists : ConcFinish(i, l)
  \/ \E w \in pending : StoreSettle(w)
  \/ RedisFlip

SpecConcurrent == InitConcurrent /\ [][NextConcurrent]_vars

\* Every call has returned and no write to the shared store is in flight.
AllSettled == pending = {} /\ \A i \in Calls : callPc[i] = "done"

ReturnedLists == { callResults[i] : i \in Calls }

MemoryEntry == LruGet(cache.mem, ConcKey, now)

\* Each call returned a whole list, and each tier that has an entry for
\* the key holds a whole list one of the calls returned.
CompleteInEachTier ==
  /\ \A i \in Calls : callResults[i] \in ConcLists
  /\ MemoryEntry.found /\ MemoryEntry.value \in ReturnedLists
  /\ RedisHas(cache.store, ConcKey, now) => cache.store[ConcKey].value \in ReturnedLists

\* C22 as stated: once the calls and their cache writes have finished, the
\* entry is the complete list of one call, the same one in the in-process
\* tier and in the shared store.
C22_LastWriteWins_AsStated ==
  (AllSettled /\ RedisHas(cache.store, ConcKey, now)) =>
    /\ CompleteInEachTier
    /\ cache.store[ConcKey].value = MemoryEntry.value

\* C22: for every interleaving of concurrent calls for one query and limit,
\* each call returns a complete list, and once all cache writes have
\* finished each tier holds the complete list written by one of the calls.
\* The two tiers need not hold the same call's list.
C22_LastWriteWins == AllSettled => CompleteInEachTier

\* Two calls both missed, computed different lists and wrote them; all
\* writes have settled and both tiers hold an entry.
C22_Witness ==
  /\ AllSettled
  /\ callResults[1] # callResults[2]
  /\ RedisHas(cache.store, ConcKey, now)
  /\ MemoryEntry.found

(***************************************************************************)
(* A vote and the searches around it                                       *)
(*                                                                         *)
(* getFeedbackScores reads the score cache, awaits the aggregation query   *)
(* and writes the scores it computed from the rows: other requests run     *)
(* between the read and the write.  Call 2 is the search that starts after *)
(* the vote request has completed; call 1 starts at any time.              *)
(***************************************************************************)
VotedTcode == Txt_PM10

VoteSearchResults == << ResultAt(Txt_PM10, 660), ResultAt(Txt_PM01, 400) >>

\* getFeedbackScores up to the answer of the aggregation query.
FbRead(i) ==
  /\ pc = "idle"
  /\ callPc[i] = "idle"
  /\ i = 2 => votePc = "done"
  /\ LET rd == ReadCachedScores([cache |-> cache, cached |-> <<>>, uncached |-> <<>>],
                                redisMode, Tcodes(VoteSearchResults), 1, now)
     IN /\ cache' = rd.cache
        /\ IF Len(rd.uncached) = 0
           THEN /\ callResults' = [callResults EXCEPT
                     ![i] = SortByConfidence(BoostByScores(VoteSearchResults, rd.cached))]
                /\ callPc' = [callPc EXCEPT ![i] = "done"]
                /\ UNCHANGED aggRead
           ELSE /\ aggRead' = [aggRead EXCEPT
                     ![i] = [cached |-> rd.cached, uncached |-> rd.uncached,
                             votes |-> votes]]
                /\ callPc' = [callPc EXCEPT ![i] = "read"]
                /\ UNCHANGED callResults
  /\ UNCHANGED <<webCalled, votePc, pending, deepGPTResults, pipelineVarsButCache, hybridVars, cacheRet>>

\* getFeedbackScores from the rows on, and applyFeedbackBoostToAI.
FbWrite(i) ==
  /\ pc = "idle"
  /\ callPc[i] = "read"
  /\ LET f == ScoresFromRead([cache |-> cache, cached |-> aggRead[i].cached,
                              uncached |-> aggRead[i].uncached],
                             redisMode, aggRead[i].votes, TRUE, now)
     IN /\ cache' = f.cache
        /\ callResults' = [callResults EXCEPT
             ![i] = SortByConfidence(BoostByScores(VoteSearchResults, f.scores))]
  /\ callPc' = [callPc EXCEPT ![i] = "done"]
  /\ UNCHANGED <<webCalled, voteVars, pending, deepGPTResults, pipelineVarsButCache, hybridVars, cacheRet>>

\* POST /api/feedback up to prisma.feedback.create.
VoteCreate(v) ==
  /\ pc = "idle"
  /\ votePc = "idle"
  /\ votes' = [votes EXCEPT ![VotedTcode] = [net |-> @.net + v, total |-> @.total + 1]]
  /\ votePc' = "created"
  /\ UNCHANGED <<webCalled, aggRead, callPc, callResults, pending, deepGPTResults, cacheRet,
                 hybridVars, cache, now, redisMode, openaiKey, braveKey, vectorIndex,
                 molgaDataCache, served, pc, localVars, hung, response, lastWrite>>

\* invalidateFeedbackCache, and the response.
VoteInvalidate ==
  /\ pc = "idle"
  /\ votePc = "created"
  /\ cache' = deleteCached(cache, redisMode, "feedback-scores", VotedTcode)
  /\ votePc' = "done"
  /\ UNCHANGED <<webCalled, aggRead, callPc, callResults, pending, deepGPTResults,
                 pipelineVarsButCache, hybridVars, cacheRet>>

InitVote ==
  /\ StageInit("idle")
  /\ redisMode \in {"none", "up"}
  /\ votes \in {NoVotes, VotesCast}
  /\ query = <<>>
  /\ results = <<>>

NextVote ==
  \/ \E i \in Calls : FbRead(i)
  \/ \E i \in Calls : FbWrite(i)
  \/ \E v \in {1, -1} : VoteCreate(v)
  \/ VoteInvalidate

SpecVote == InitVote /\ [][NextVote]_vars

\* The list a search gives when its boost comes from the vote table as it
\* stands.
BoostedFromVotes(voteTable) ==
  SortByConfidence(BoostByScores(VoteSearchResults,
                                 FreshScores(Tcodes(VoteSearchResults), voteTable)))

\* C23: the search that follows a recorded vote and the completed
\* invalidateFeedbackCache boosts the voted identifier by a factor computed
\* from vote totals that include the new vote, whatever searches ran
\* concurrently with the vote.
C23_NextSearchSeesVote ==
  callPc[2] = "done" => callResults[2] = BoostedFromVotes(votes)

\* The in-process tier holds an entry for q that has not reached its
\* expiry time: a value set earlier and not deleted or evicted since.
HeldInProcess(q) ==
  /\ LruIndex(cache.mem, generateCacheKey(CachePrefix, q)) # 0
  /\ now < cache.mem[LruIndex(cache.mem, generateCacheKey(CachePrefix, q))].expiresAt

\* C24: a value that setCached stored and that has not expired or been
\* deleted or evicted is what getCached returns, whether the shared store
\* is not configured, healthy or failing; a value that only the in-process
\* tier holds is returned when the shared store has no entry for the key.
C24_GetReturnsWhatWasSet ==
  [][\A q \in CacheQueries :
       (CacheGet(q) /\ HeldInProcess(q)) =>
         /\ cacheRet'.found
         /\ cacheRet'.value = InProcess(cache.mem, q, now).value]_vars

(***************************************************************************)
(* The in-process cache alone: no shared store is configured               *)
(***************************************************************************)
\* One query text more than the cache has room for.
LruQueries == {Q_usaPay, Q_createOrder, Txt_germanPay, Txt_changeOrder, Txt_displayOrder}

LruKeys(mem) == { mem[i].key : i \in 1..Len(mem) }

InitLru ==
  /\ StageInit("idle")
  /\ redisMode = "none"
  /\ votes = NoVotes
  /\ query = <<>>
  /\ results = <<>>

NextLru ==
  \/ \E q \in LruQueries : CacheGet(q)
  \/ \E q \in LruQueries : CacheSet(q, "a")
  \/ \E q \in LruQueries : CacheDelete(q)
  \/ Tick(1)

SpecLru == InitLru /\ [][NextLru]_vars

\* The entry of the in-process tier for q is past its expiry time.
ExpiredInProcess(q) ==
  /\ LruIndex(cache.mem, generateCacheKey(CachePrefix, q)) # 0
  /\ now > cache.mem[LruIndex(cache.mem, generateCacheKey(CachePrefix, q))].expiresAt

\* C25: the in-process cache never holds more entries than its capacity;
\* set removes another key's entry only when the cache is full and the key
\* being set is new; an entry read after its expiry time is reported absent
\* and removed.
C25_LruDiscipline ==
  [][\A q \in LruQueries :
       /\ Len(cache'.mem) <= MemoryMaxSize
       /\ (CacheSet(q, "a") /\ LruKeys(cache.mem) \ LruKeys(cache'.mem) # {}) =>
            /\ Len(cache.mem) = MemoryMaxSize
            /\ generateCacheKey(CachePrefix, q) \notin LruKeys(cache.mem)
       /\ (CacheGet(q) /\ ExpiredInProcess(q)) =>
            /\ ~cacheRet'.found
            /\ generateCacheKey(CachePrefix, q) \notin LruKeys(cache'.mem)]_vars

(***************************************************************************)
(* The merged scores of hybridSearch                                       *)
(***************************************************************************)
\* The scores the strategies that returned t gave it.
StrategyScores(t) ==
  (IF HasTcode(exactResults, t) THEN {ScoreOf(exactResults, t)} ELSE {})
    \cup (IF HasTcode(fuzzyResults, t) THEN {ScoreOf(fuzzyResults, t)} ELSE {})
    \cup (IF HasTcode(ftsResults, t) THEN {ScoreOf(ftsResults, t)} ELSE {})

StrategiesReturning(t) ==
  (IF HasTcode(exactResults, t) THEN {"exact"} ELSE {})
    \cup (IF HasTcode(fuzzyResults, t) THEN {"fuzzy"} ELSE {})
    \cup (IF HasTcode(ftsResults, t) THEN {"fulltext"} ELSE {})

HighestScore(t) == CHOOSE x \in StrategyScores(t) : \A y \in StrategyScores(t) : y <= x

\* The merged score the merge policy gives t.
PolicyScore(t) ==
  IF "exact" \in StrategiesReturning(t) THEN 1000
  ELSE IF Cardinality(StrategiesReturning(t)) > 1
  THEN Min(1000, Mul(HighestScore(t), 6, 5))
  ELSE HighestScore(t)

\* C26: an identifier returned by more than one strategy has the merged
\* relevanceScore 1.0 if the exact strategy returned it and otherwise
\* min(1.0, 1.2 x the highest score a strategy gave it); an identifier
\* returned by one strategy keeps that strategy's score.
C26_MergedScore ==
  hybridPc = "done" =>
    \A i \in 1..Len(hybridResults) :
      hybridResults[i].relevanceScore = PolicyScore(hybridResults[i].tcode)


(***************************************************************************)
(* The merge of validated web hits                                         *)
(***************************************************************************)
\* The validated web hits enhanceWithWebSearch merges for a page content,
\* none when the fallback is not triggered.
WebHitsFor(content) ==
  IF Len(results) > 0 /\ results[1].confidence >= WEB_FALLBACK_THRESHOLD THEN <<>>
  ELSE validateAndFetchTCodes(extractTCodes(IF braveKey THEN content ELSE <<>>))

\* The candidate of a list with the given identifier.
EntryOf(list, t) == list[CHOOSE k \in 1..Len(list) : list[k].tcode = t]

\* The merge policy for one validated web hit w against the list before.
MergedAsPolicy(before, after, w) ==
  /\ HasTcode(after, w.tcode)
  /\ IF HasTcode(before, w.tcode)
     THEN EntryOf(after, w.tcode).confidence =
            Min(950, Mul(EntryOf(before, w.tcode).confidence, 115, 100))
     ELSE EntryOf(after, w.tcode).confidence = w.confidence

\* C27: when the web stage of executeAISearch merges validated web hits, a
\* hit whose identifier is already in the result list leaves the existing
\* candidate in the list with its confidence multiplied by 1.15 and capped
\* at 0.95, and a hit not yet in the list is inserted with the fixed web
\* confidence.
C27_WebMergeBoostsExisting ==
  [][\A content \in WebContents :
       Web(content, "ok") =>
         \A i \in 1..Len(WebHitsFor(content)) :
           MergedAsPolicy(results, results', WebHitsFor(content)[i])]_vars


\* C28: once the enhanced fallback has been triggered it returns: it is
\* never left awaiting a web provider, the reasoning model or the catalog
\* validation query that does not respond.
C28_EnhancedFallbackReturns ==
  pc = "enhance" => ~hung


(***************************************************************************)
(* The trigger of the web stage                                            *)
(***************************************************************************)
\* The top confidence the web stage is handed reaches the threshold.
TopAtThreshold ==
  Len(results) > 0 /\ results[1].confidence >= WEB_FALLBACK_THRESHOLD

\* C29: the web stage of executeAISearch requests a web-search provider
\* only when the top confidence after the judge is strictly below the
\* threshold; when the top confidence is at or above the threshold the
\* stage hands on the result list unchanged and requests no provider.
C29_ProviderOnlyBelowThreshold ==
  [][\A content \in WebContents, o \in DbOutcomes :
       Web(content, o) =>
         /\ webCalled' => ~TopAtThreshold
         /\ TopAtThreshold =>
              (results' = results /\ ~webCalled' /\ pc' = "molga" /\ ~hung')]_vars

\* The web stage has run on a list whose top reached the threshold while a
\* provider key was set, and has requested no provider.
C29_Witness ==
  /\ pc = "molga"
  /\ braveKey
  /\ ~webCalled
  /\ Len(results) > 0
  /\ results[1].confidence >= WEB_FALLBACK_THRESHOLD


(***************************************************************************)
(* The feedback stage when the aggregation fails                           *)
(***************************************************************************)
\* getFeedbackScores finds the identifier's score in the cache.
ResolvedFromCache(t) ==
  getCached(cache, redisMode, "feedback-scores", t, now).found

\* C30: when the feedback aggregation query fails, the candidates whose
\* identifier was not resolved from the cache keep their confidence (their
\* factor is the neutral 1.0), no candidate is lost, and executeAISearch
\* returns its results.
C30_AggregationFailureIsNeutral ==
  [][Feedback("error") =>
       /\ pc' = "returned"
       /\ ~hung'
       /\ Len(results') = Len(results)
       /\ \A i \in 1..Len(results) :
            ~ResolvedFromCache(results[i].tcode) =>
              \E j \in 1..Len(results') : results'[j] = results[i]]_vars

\* The search returned the list it entered the feedback stage with, for an
\* identifier with 150 upvotes whose aggregation would have raised it: no
\* score was computed and kept, and only the result list was cached.
C30_Witness ==
  /\ pc = "returned"
  /\ votes[Txt_PM10].net = 150
  /\ FeedbackEntries = {}
  /\ results = <<ResultAt(Txt_PM10, 660), ResultAt(Txt_PM01, 400)>>
  /\ Len(cache.mem) = 1

=============================================================================
